---- MODULE Spec2Model ----
(***************************************************************************)
(* Model of sagemcom2mqtt: the anonymizer (src/src/sagemcom2mqtt/          *)
(* anonymize.py) with its replacement store, its three regex scanners and  *)
(* their substitution callbacks, the value policy anonymize_value, the     *)
(* document walker anonymize_data, the driver anonymize_file and the       *)
(* command line; and of app.py the function parse_docsis_data and the      *)
(* polling loop.                                                           *)
(*                                                                         *)
(* A Python str is the tuple of its characters.  A character is a TLA+     *)
(* string: the character itself when it is a printable ASCII character     *)
(* other than the grave accent, a tab, line feed, form feed or carriage    *)
(* return, or one of U+00A0 to U+00FF; for every other code point the name *)
(* "U+" followed by the code point in upper-case hexadecimal digits, four  *)
(* at least ("U+0008", "U+0060", "U+06F1", "U+1D7CE").  Txt("abc") is the  *)
(* text <<"a", "b", "c">> and                                              *)
(* << >> is the empty text.  Tags of the model (kinds of nodes, names of   *)
(* rules, patterns, messages and exceptions) are plain TLA+ strings.       *)
(*                                                                         *)
(* A JSON node is a record: a scalar is                                    *)
(* [t |-> "str" | "num" | "bool" | "null", v |-> <text>], an object is     *)
(* [t |-> "obj", items |-> <<[k |-> key, n |-> node], ...>>] and an array  *)
(* is [t |-> "arr", elems |-> <<node, ...>>].                              *)
(*                                                                         *)
(* A Python int is a sign and a magnitude of any size, a Python float is   *)
(* an IEEE 754 binary64 value; both are computed exactly as the            *)
(* interpreter computes them (section Numbers).                            *)
(*                                                                         *)
(* The random module is modelled by a tape of raw draws that an operation  *)
(* reads cyclically: rnd = [tape |-> <<n1, ...>>, pos |-> draws so far].   *)
(* Every function that draws returns the advanced rnd with its result.     *)
(*                                                                         *)
(* The({ F(x) : x \in {e} }) evaluates e once and gives F of its value:    *)
(* the sequential assignments of the Python code are written this way.    *)
(***************************************************************************)
EXTENDS Integers, Sequences, FiniteSets, TLC

VARIABLES REPLACEMENTS_MAP, FAKE_SERIAL_NUMBER, last, seen, ncalls, files, driver, parsed,
          ha_discovery_prefix, last_poll_time, last_correctable_sum,
          last_uncorrectable_sum, discovery_published, published, running, polled

\* the variables of the polling loop of app.py
loop_vars == <<ha_discovery_prefix, last_poll_time, last_correctable_sum,
               last_uncorrectable_sum, discovery_published, published, running, polled>>

vars == <<REPLACEMENTS_MAP, FAKE_SERIAL_NUMBER, last, seen, ncalls, files, driver, parsed,
          loop_vars>>

----------------------------------------------------------------------------
(* The Unicode character database of the interpreter (Unicode 14.0), as     *)
(* far as re, str.lower, str.upper, int and float read it: ranges           *)
(* <<first, last>> of code points                                           *)

\* str.isalnum() or "_": the code points \w takes and \b tells apart
WORD_RANGES == <<
    <<48, 57>>, <<65, 90>>, <<95, 95>>, <<97, 122>>, <<170, 170>>, <<178, 179>>,
    <<181, 181>>, <<185, 186>>, <<188, 190>>, <<192, 214>>, <<216, 246>>, <<248, 705>>,
    <<710, 721>>, <<736, 740>>, <<748, 748>>, <<750, 750>>, <<880, 884>>, <<886, 887>>,
    <<890, 893>>, <<895, 895>>, <<902, 902>>, <<904, 906>>, <<908, 908>>, <<910, 929>>,
    <<931, 1013>>, <<1015, 1153>>, <<1162, 1327>>, <<1329, 1366>>, <<1369, 1369>>, <<1376, 1416>>,
    <<1488, 1514>>, <<1519, 1522>>, <<1568, 1610>>, <<1632, 1641>>, <<1646, 1647>>, <<1649, 1747>>,
    <<1749, 1749>>, <<1765, 1766>>, <<1774, 1788>>, <<1791, 1791>>, <<1808, 1808>>, <<1810, 1839>>,
    <<1869, 1957>>, <<1969, 1969>>, <<1984, 2026>>, <<2036, 2037>>, <<2042, 2042>>, <<2048, 2069>>,
    <<2074, 2074>>, <<2084, 2084>>, <<2088, 2088>>, <<2112, 2136>>, <<2144, 2154>>, <<2160, 2183>>,
    <<2185, 2190>>, <<2208, 2249>>, <<2308, 2361>>, <<2365, 2365>>, <<2384, 2384>>, <<2392, 2401>>,
    <<2406, 2415>>, <<2417, 2432>>, <<2437, 2444>>, <<2447, 2448>>, <<2451, 2472>>, <<2474, 2480>>,
    <<2482, 2482>>, <<2486, 2489>>, <<2493, 2493>>, <<2510, 2510>>, <<2524, 2525>>, <<2527, 2529>>,
    <<2534, 2545>>, <<2548, 2553>>, <<2556, 2556>>, <<2565, 2570>>, <<2575, 2576>>, <<2579, 2600>>,
    <<2602, 2608>>, <<2610, 2611>>, <<2613, 2614>>, <<2616, 2617>>, <<2649, 2652>>, <<2654, 2654>>,
    <<2662, 2671>>, <<2674, 2676>>, <<2693, 2701>>, <<2703, 2705>>, <<2707, 2728>>, <<2730, 2736>>,
    <<2738, 2739>>, <<2741, 2745>>, <<2749, 2749>>, <<2768, 2768>>, <<2784, 2785>>, <<2790, 2799>>,
    <<2809, 2809>>, <<2821, 2828>>, <<2831, 2832>>, <<2835, 2856>>, <<2858, 2864>>, <<2866, 2867>>,
    <<2869, 2873>>, <<2877, 2877>>, <<2908, 2909>>, <<2911, 2913>>, <<2918, 2927>>, <<2929, 2935>>,
    <<2947, 2947>>, <<2949, 2954>>, <<2958, 2960>>, <<2962, 2965>>, <<2969, 2970>>, <<2972, 2972>>,
    <<2974, 2975>>, <<2979, 2980>>, <<2984, 2986>>, <<2990, 3001>>, <<3024, 3024>>, <<3046, 3058>>,
    <<3077, 3084>>, <<3086, 3088>>, <<3090, 3112>>, <<3114, 3129>>, <<3133, 3133>>, <<3160, 3162>>,
    <<3165, 3165>>, <<3168, 3169>>, <<3174, 3183>>, <<3192, 3198>>, <<3200, 3200>>, <<3205, 3212>>,
    <<3214, 3216>>, <<3218, 3240>>, <<3242, 3251>>, <<3253, 3257>>, <<3261, 3261>>, <<3293, 3294>>,
    <<3296, 3297>>, <<3302, 3311>>, <<3313, 3314>>, <<3332, 3340>>, <<3342, 3344>>, <<3346, 3386>>,
    <<3389, 3389>>, <<3406, 3406>>, <<3412, 3414>>, <<3416, 3425>>, <<3430, 3448>>, <<3450, 3455>>,
    <<3461, 3478>>, <<3482, 3505>>, <<3507, 3515>>, <<3517, 3517>>, <<3520, 3526>>, <<3558, 3567>>,
    <<3585, 3632>>, <<3634, 3635>>, <<3648, 3654>>, <<3664, 3673>>, <<3713, 3714>>, <<3716, 3716>>,
    <<3718, 3722>>, <<3724, 3747>>, <<3749, 3749>>, <<3751, 3760>>, <<3762, 3763>>, <<3773, 3773>>,
    <<3776, 3780>>, <<3782, 3782>>, <<3792, 3801>>, <<3804, 3807>>, <<3840, 3840>>, <<3872, 3891>>,
    <<3904, 3911>>, <<3913, 3948>>, <<3976, 3980>>, <<4096, 4138>>, <<4159, 4169>>, <<4176, 4181>>,
    <<4186, 4189>>, <<4193, 4193>>, <<4197, 4198>>, <<4206, 4208>>, <<4213, 4225>>, <<4238, 4238>>,
    <<4240, 4249>>, <<4256, 4293>>, <<4295, 4295>>, <<4301, 4301>>, <<4304, 4346>>, <<4348, 4680>>,
    <<4682, 4685>>, <<4688, 4694>>, <<4696, 4696>>, <<4698, 4701>>, <<4704, 4744>>, <<4746, 4749>>,
    <<4752, 4784>>, <<4786, 4789>>, <<4792, 4798>>, <<4800, 4800>>, <<4802, 4805>>, <<4808, 4822>>,
    <<4824, 4880>>, <<4882, 4885>>, <<4888, 4954>>, <<4969, 4988>>, <<4992, 5007>>, <<5024, 5109>>,
    <<5112, 5117>>, <<5121, 5740>>, <<5743, 5759>>, <<5761, 5786>>, <<5792, 5866>>, <<5870, 5880>>,
    <<5888, 5905>>, <<5919, 5937>>, <<5952, 5969>>, <<5984, 5996>>, <<5998, 6000>>, <<6016, 6067>>,
    <<6103, 6103>>, <<6108, 6108>>, <<6112, 6121>>, <<6128, 6137>>, <<6160, 6169>>, <<6176, 6264>>,
    <<6272, 6276>>, <<6279, 6312>>, <<6314, 6314>>, <<6320, 6389>>, <<6400, 6430>>, <<6470, 6509>>,
    <<6512, 6516>>, <<6528, 6571>>, <<6576, 6601>>, <<6608, 6618>>, <<6656, 6678>>, <<6688, 6740>>,
    <<6784, 6793>>, <<6800, 6809>>, <<6823, 6823>>, <<6917, 6963>>, <<6981, 6988>>, <<6992, 7001>>,
    <<7043, 7072>>, <<7086, 7141>>, <<7168, 7203>>, <<7232, 7241>>, <<7245, 7293>>, <<7296, 7304>>,
    <<7312, 7354>>, <<7357, 7359>>, <<7401, 7404>>, <<7406, 7411>>, <<7413, 7414>>, <<7418, 7418>>,
    <<7424, 7615>>, <<7680, 7957>>, <<7960, 7965>>, <<7968, 8005>>, <<8008, 8013>>, <<8016, 8023>>,
    <<8025, 8025>>, <<8027, 8027>>, <<8029, 8029>>, <<8031, 8061>>, <<8064, 8116>>, <<8118, 8124>>,
    <<8126, 8126>>, <<8130, 8132>>, <<8134, 8140>>, <<8144, 8147>>, <<8150, 8155>>, <<8160, 8172>>,
    <<8178, 8180>>, <<8182, 8188>>, <<8304, 8305>>, <<8308, 8313>>, <<8319, 8329>>, <<8336, 8348>>,
    <<8450, 8450>>, <<8455, 8455>>, <<8458, 8467>>, <<8469, 8469>>, <<8473, 8477>>, <<8484, 8484>>,
    <<8486, 8486>>, <<8488, 8488>>, <<8490, 8493>>, <<8495, 8505>>, <<8508, 8511>>, <<8517, 8521>>,
    <<8526, 8526>>, <<8528, 8585>>, <<9312, 9371>>, <<9450, 9471>>, <<10102, 10131>>, <<11264, 11492>>,
    <<11499, 11502>>, <<11506, 11507>>, <<11517, 11517>>, <<11520, 11557>>, <<11559, 11559>>, <<11565, 11565>>,
    <<11568, 11623>>, <<11631, 11631>>, <<11648, 11670>>, <<11680, 11686>>, <<11688, 11694>>, <<11696, 11702>>,
    <<11704, 11710>>, <<11712, 11718>>, <<11720, 11726>>, <<11728, 11734>>, <<11736, 11742>>, <<11823, 11823>>,
    <<12293, 12295>>, <<12321, 12329>>, <<12337, 12341>>, <<12344, 12348>>, <<12353, 12438>>, <<12445, 12447>>,
    <<12449, 12538>>, <<12540, 12543>>, <<12549, 12591>>, <<12593, 12686>>, <<12690, 12693>>, <<12704, 12735>>,
    <<12784, 12799>>, <<12832, 12841>>, <<12872, 12879>>, <<12881, 12895>>, <<12928, 12937>>, <<12977, 12991>>,
    <<13312, 19903>>, <<19968, 42124>>, <<42192, 42237>>, <<42240, 42508>>, <<42512, 42539>>, <<42560, 42606>>,
    <<42623, 42653>>, <<42656, 42735>>, <<42775, 42783>>, <<42786, 42888>>, <<42891, 42954>>, <<42960, 42961>>,
    <<42963, 42963>>, <<42965, 42969>>, <<42994, 43009>>, <<43011, 43013>>, <<43015, 43018>>, <<43020, 43042>>,
    <<43056, 43061>>, <<43072, 43123>>, <<43138, 43187>>, <<43216, 43225>>, <<43250, 43255>>, <<43259, 43259>>,
    <<43261, 43262>>, <<43264, 43301>>, <<43312, 43334>>, <<43360, 43388>>, <<43396, 43442>>, <<43471, 43481>>,
    <<43488, 43492>>, <<43494, 43518>>, <<43520, 43560>>, <<43584, 43586>>, <<43588, 43595>>, <<43600, 43609>>,
    <<43616, 43638>>, <<43642, 43642>>, <<43646, 43695>>, <<43697, 43697>>, <<43701, 43702>>, <<43705, 43709>>,
    <<43712, 43712>>, <<43714, 43714>>, <<43739, 43741>>, <<43744, 43754>>, <<43762, 43764>>, <<43777, 43782>>,
    <<43785, 43790>>, <<43793, 43798>>, <<43808, 43814>>, <<43816, 43822>>, <<43824, 43866>>, <<43868, 43881>>,
    <<43888, 44002>>, <<44016, 44025>>, <<44032, 55203>>, <<55216, 55238>>, <<55243, 55291>>, <<63744, 64109>>,
    <<64112, 64217>>, <<64256, 64262>>, <<64275, 64279>>, <<64285, 64285>>, <<64287, 64296>>, <<64298, 64310>>,
    <<64312, 64316>>, <<64318, 64318>>, <<64320, 64321>>, <<64323, 64324>>, <<64326, 64433>>, <<64467, 64829>>,
    <<64848, 64911>>, <<64914, 64967>>, <<65008, 65019>>, <<65136, 65140>>, <<65142, 65276>>, <<65296, 65305>>,
    <<65313, 65338>>, <<65345, 65370>>, <<65382, 65470>>, <<65474, 65479>>, <<65482, 65487>>, <<65490, 65495>>,
    <<65498, 65500>>, <<65536, 65547>>, <<65549, 65574>>, <<65576, 65594>>, <<65596, 65597>>, <<65599, 65613>>,
    <<65616, 65629>>, <<65664, 65786>>, <<65799, 65843>>, <<65856, 65912>>, <<65930, 65931>>, <<66176, 66204>>,
    <<66208, 66256>>, <<66273, 66299>>, <<66304, 66339>>, <<66349, 66378>>, <<66384, 66421>>, <<66432, 66461>>,
    <<66464, 66499>>, <<66504, 66511>>, <<66513, 66517>>, <<66560, 66717>>, <<66720, 66729>>, <<66736, 66771>>,
    <<66776, 66811>>, <<66816, 66855>>, <<66864, 66915>>, <<66928, 66938>>, <<66940, 66954>>, <<66956, 66962>>,
    <<66964, 66965>>, <<66967, 66977>>, <<66979, 66993>>, <<66995, 67001>>, <<67003, 67004>>, <<67072, 67382>>,
    <<67392, 67413>>, <<67424, 67431>>, <<67456, 67461>>, <<67463, 67504>>, <<67506, 67514>>, <<67584, 67589>>,
    <<67592, 67592>>, <<67594, 67637>>, <<67639, 67640>>, <<67644, 67644>>, <<67647, 67669>>, <<67672, 67702>>,
    <<67705, 67742>>, <<67751, 67759>>, <<67808, 67826>>, <<67828, 67829>>, <<67835, 67867>>, <<67872, 67897>>,
    <<67968, 68023>>, <<68028, 68047>>, <<68050, 68096>>, <<68112, 68115>>, <<68117, 68119>>, <<68121, 68149>>,
    <<68160, 68168>>, <<68192, 68222>>, <<68224, 68255>>, <<68288, 68295>>, <<68297, 68324>>, <<68331, 68335>>,
    <<68352, 68405>>, <<68416, 68437>>, <<68440, 68466>>, <<68472, 68497>>, <<68521, 68527>>, <<68608, 68680>>,
    <<68736, 68786>>, <<68800, 68850>>, <<68858, 68899>>, <<68912, 68921>>, <<69216, 69246>>, <<69248, 69289>>,
    <<69296, 69297>>, <<69376, 69415>>, <<69424, 69445>>, <<69457, 69460>>, <<69488, 69505>>, <<69552, 69579>>,
    <<69600, 69622>>, <<69635, 69687>>, <<69714, 69743>>, <<69745, 69746>>, <<69749, 69749>>, <<69763, 69807>>,
    <<69840, 69864>>, <<69872, 69881>>, <<69891, 69926>>, <<69942, 69951>>, <<69956, 69956>>, <<69959, 69959>>,
    <<69968, 70002>>, <<70006, 70006>>, <<70019, 70066>>, <<70081, 70084>>, <<70096, 70106>>, <<70108, 70108>>,
    <<70113, 70132>>, <<70144, 70161>>, <<70163, 70187>>, <<70272, 70278>>, <<70280, 70280>>, <<70282, 70285>>,
    <<70287, 70301>>, <<70303, 70312>>, <<70320, 70366>>, <<70384, 70393>>, <<70405, 70412>>, <<70415, 70416>>,
    <<70419, 70440>>, <<70442, 70448>>, <<70450, 70451>>, <<70453, 70457>>, <<70461, 70461>>, <<70480, 70480>>,
    <<70493, 70497>>, <<70656, 70708>>, <<70727, 70730>>, <<70736, 70745>>, <<70751, 70753>>, <<70784, 70831>>,
    <<70852, 70853>>, <<70855, 70855>>, <<70864, 70873>>, <<71040, 71086>>, <<71128, 71131>>, <<71168, 71215>>,
    <<71236, 71236>>, <<71248, 71257>>, <<71296, 71338>>, <<71352, 71352>>, <<71360, 71369>>, <<71424, 71450>>,
    <<71472, 71483>>, <<71488, 71494>>, <<71680, 71723>>, <<71840, 71922>>, <<71935, 71942>>, <<71945, 71945>>,
    <<71948, 71955>>, <<71957, 71958>>, <<71960, 71983>>, <<71999, 71999>>, <<72001, 72001>>, <<72016, 72025>>,
    <<72096, 72103>>, <<72106, 72144>>, <<72161, 72161>>, <<72163, 72163>>, <<72192, 72192>>, <<72203, 72242>>,
    <<72250, 72250>>, <<72272, 72272>>, <<72284, 72329>>, <<72349, 72349>>, <<72368, 72440>>, <<72704, 72712>>,
    <<72714, 72750>>, <<72768, 72768>>, <<72784, 72812>>, <<72818, 72847>>, <<72960, 72966>>, <<72968, 72969>>,
    <<72971, 73008>>, <<73030, 73030>>, <<73040, 73049>>, <<73056, 73061>>, <<73063, 73064>>, <<73066, 73097>>,
    <<73112, 73112>>, <<73120, 73129>>, <<73440, 73458>>, <<73648, 73648>>, <<73664, 73684>>, <<73728, 74649>>,
    <<74752, 74862>>, <<74880, 75075>>, <<77712, 77808>>, <<77824, 78894>>, <<82944, 83526>>, <<92160, 92728>>,
    <<92736, 92766>>, <<92768, 92777>>, <<92784, 92862>>, <<92864, 92873>>, <<92880, 92909>>, <<92928, 92975>>,
    <<92992, 92995>>, <<93008, 93017>>, <<93019, 93025>>, <<93027, 93047>>, <<93053, 93071>>, <<93760, 93846>>,
    <<93952, 94026>>, <<94032, 94032>>, <<94099, 94111>>, <<94176, 94177>>, <<94179, 94179>>, <<94208, 100343>>,
    <<100352, 101589>>, <<101632, 101640>>, <<110576, 110579>>, <<110581, 110587>>, <<110589, 110590>>, <<110592, 110882>>,
    <<110928, 110930>>, <<110948, 110951>>, <<110960, 111355>>, <<113664, 113770>>, <<113776, 113788>>, <<113792, 113800>>,
    <<113808, 113817>>, <<119520, 119539>>, <<119648, 119672>>, <<119808, 119892>>, <<119894, 119964>>, <<119966, 119967>>,
    <<119970, 119970>>, <<119973, 119974>>, <<119977, 119980>>, <<119982, 119993>>, <<119995, 119995>>, <<119997, 120003>>,
    <<120005, 120069>>, <<120071, 120074>>, <<120077, 120084>>, <<120086, 120092>>, <<120094, 120121>>, <<120123, 120126>>,
    <<120128, 120132>>, <<120134, 120134>>, <<120138, 120144>>, <<120146, 120485>>, <<120488, 120512>>, <<120514, 120538>>,
    <<120540, 120570>>, <<120572, 120596>>, <<120598, 120628>>, <<120630, 120654>>, <<120656, 120686>>, <<120688, 120712>>,
    <<120714, 120744>>, <<120746, 120770>>, <<120772, 120779>>, <<120782, 120831>>, <<122624, 122654>>, <<123136, 123180>>,
    <<123191, 123197>>, <<123200, 123209>>, <<123214, 123214>>, <<123536, 123565>>, <<123584, 123627>>, <<123632, 123641>>,
    <<124896, 124902>>, <<124904, 124907>>, <<124909, 124910>>, <<124912, 124926>>, <<124928, 125124>>, <<125127, 125135>>,
    <<125184, 125251>>, <<125259, 125259>>, <<125264, 125273>>, <<126065, 126123>>, <<126125, 126127>>, <<126129, 126132>>,
    <<126209, 126253>>, <<126255, 126269>>, <<126464, 126467>>, <<126469, 126495>>, <<126497, 126498>>, <<126500, 126500>>,
    <<126503, 126503>>, <<126505, 126514>>, <<126516, 126519>>, <<126521, 126521>>, <<126523, 126523>>, <<126530, 126530>>,
    <<126535, 126535>>, <<126537, 126537>>, <<126539, 126539>>, <<126541, 126543>>, <<126545, 126546>>, <<126548, 126548>>,
    <<126551, 126551>>, <<126553, 126553>>, <<126555, 126555>>, <<126557, 126557>>, <<126559, 126559>>, <<126561, 126562>>,
    <<126564, 126564>>, <<126567, 126570>>, <<126572, 126578>>, <<126580, 126583>>, <<126585, 126588>>, <<126590, 126590>>,
    <<126592, 126601>>, <<126603, 126619>>, <<126625, 126627>>, <<126629, 126633>>, <<126635, 126651>>, <<127232, 127244>>,
    <<130032, 130041>>, <<131072, 173791>>, <<173824, 177976>>, <<177984, 178205>>, <<178208, 183969>>, <<183984, 191456>>,
    <<194560, 195101>>, <<196608, 201546>> >>

\* str.isdecimal(): the code points \d takes, int() and float() read;
\* every range begins with a digit zero and the digits follow in order
DECIMAL_RANGES == <<
    <<48, 57>>, <<1632, 1641>>, <<1776, 1785>>, <<1984, 1993>>, <<2406, 2415>>, <<2534, 2543>>,
    <<2662, 2671>>, <<2790, 2799>>, <<2918, 2927>>, <<3046, 3055>>, <<3174, 3183>>, <<3302, 3311>>,
    <<3430, 3439>>, <<3558, 3567>>, <<3664, 3673>>, <<3792, 3801>>, <<3872, 3881>>, <<4160, 4169>>,
    <<4240, 4249>>, <<6112, 6121>>, <<6160, 6169>>, <<6470, 6479>>, <<6608, 6617>>, <<6784, 6793>>,
    <<6800, 6809>>, <<6992, 7001>>, <<7088, 7097>>, <<7232, 7241>>, <<7248, 7257>>, <<42528, 42537>>,
    <<43216, 43225>>, <<43264, 43273>>, <<43472, 43481>>, <<43504, 43513>>, <<43600, 43609>>, <<44016, 44025>>,
    <<65296, 65305>>, <<66720, 66729>>, <<68912, 68921>>, <<69734, 69743>>, <<69872, 69881>>, <<69942, 69951>>,
    <<70096, 70105>>, <<70384, 70393>>, <<70736, 70745>>, <<70864, 70873>>, <<71248, 71257>>, <<71360, 71369>>,
    <<71472, 71481>>, <<71904, 71913>>, <<72016, 72025>>, <<72784, 72793>>, <<73040, 73049>>, <<73120, 73129>>,
    <<92768, 92777>>, <<92864, 92873>>, <<93008, 93017>>, <<120782, 120831>>, <<123200, 123209>>, <<123632, 123641>>,
    <<125264, 125273>>, <<130032, 130041>> >>

\* str.isspace(): the code points int() and float() read as a blank
SPACE_RANGES == <<
    <<9, 13>>, <<28, 32>>, <<133, 133>>, <<160, 160>>, <<5760, 5760>>, <<8192, 8202>>,
    <<8232, 8233>>, <<8239, 8239>>, <<8287, 8287>>, <<12288, 12288>> >>

\* the cased code points that are not case-ignorable
CASED_RANGES == <<
    <<65, 90>>, <<97, 122>>, <<170, 170>>, <<181, 181>>, <<186, 186>>, <<192, 214>>,
    <<216, 246>>, <<248, 442>>, <<444, 447>>, <<452, 659>>, <<661, 687>>, <<880, 883>>,
    <<886, 887>>, <<891, 893>>, <<895, 895>>, <<902, 902>>, <<904, 906>>, <<908, 908>>,
    <<910, 929>>, <<931, 1013>>, <<1015, 1153>>, <<1162, 1327>>, <<1329, 1366>>, <<1376, 1416>>,
    <<4256, 4293>>, <<4295, 4295>>, <<4301, 4301>>, <<4304, 4346>>, <<4349, 4351>>, <<5024, 5109>>,
    <<5112, 5117>>, <<7296, 7304>>, <<7312, 7354>>, <<7357, 7359>>, <<7424, 7467>>, <<7531, 7543>>,
    <<7545, 7578>>, <<7680, 7957>>, <<7960, 7965>>, <<7968, 8005>>, <<8008, 8013>>, <<8016, 8023>>,
    <<8025, 8025>>, <<8027, 8027>>, <<8029, 8029>>, <<8031, 8061>>, <<8064, 8116>>, <<8118, 8124>>,
    <<8126, 8126>>, <<8130, 8132>>, <<8134, 8140>>, <<8144, 8147>>, <<8150, 8155>>, <<8160, 8172>>,
    <<8178, 8180>>, <<8182, 8188>>, <<8450, 8450>>, <<8455, 8455>>, <<8458, 8467>>, <<8469, 8469>>,
    <<8473, 8477>>, <<8484, 8484>>, <<8486, 8486>>, <<8488, 8488>>, <<8490, 8493>>, <<8495, 8500>>,
    <<8505, 8505>>, <<8508, 8511>>, <<8517, 8521>>, <<8526, 8526>>, <<8544, 8575>>, <<8579, 8580>>,
    <<9398, 9449>>, <<11264, 11387>>, <<11390, 11492>>, <<11499, 11502>>, <<11506, 11507>>, <<11520, 11557>>,
    <<11559, 11559>>, <<11565, 11565>>, <<42560, 42605>>, <<42624, 42651>>, <<42786, 42863>>, <<42865, 42887>>,
    <<42891, 42894>>, <<42896, 42954>>, <<42960, 42961>>, <<42963, 42963>>, <<42965, 42969>>, <<42997, 42998>>,
    <<43002, 43002>>, <<43824, 43866>>, <<43872, 43880>>, <<43888, 43967>>, <<64256, 64262>>, <<64275, 64279>>,
    <<65313, 65338>>, <<65345, 65370>>, <<66560, 66639>>, <<66736, 66771>>, <<66776, 66811>>, <<66928, 66938>>,
    <<66940, 66954>>, <<66956, 66962>>, <<66964, 66965>>, <<66967, 66977>>, <<66979, 66993>>, <<66995, 67001>>,
    <<67003, 67004>>, <<68736, 68786>>, <<68800, 68850>>, <<71840, 71903>>, <<93760, 93823>>, <<119808, 119892>>,
    <<119894, 119964>>, <<119966, 119967>>, <<119970, 119970>>, <<119973, 119974>>, <<119977, 119980>>, <<119982, 119993>>,
    <<119995, 119995>>, <<119997, 120003>>, <<120005, 120069>>, <<120071, 120074>>, <<120077, 120084>>, <<120086, 120092>>,
    <<120094, 120121>>, <<120123, 120126>>, <<120128, 120132>>, <<120134, 120134>>, <<120138, 120144>>, <<120146, 120485>>,
    <<120488, 120512>>, <<120514, 120538>>, <<120540, 120570>>, <<120572, 120596>>, <<120598, 120628>>, <<120630, 120654>>,
    <<120656, 120686>>, <<120688, 120712>>, <<120714, 120744>>, <<120746, 120770>>, <<120772, 120779>>, <<122624, 122633>>,
    <<122635, 122654>>, <<125184, 125251>>, <<127280, 127305>>, <<127312, 127337>>, <<127344, 127369>> >>

\* the case-ignorable code points
CASE_IGNORABLE_RANGES == <<
    <<39, 39>>, <<46, 46>>, <<58, 58>>, <<94, 94>>, <<96, 96>>, <<168, 168>>,
    <<173, 173>>, <<175, 175>>, <<180, 180>>, <<183, 184>>, <<688, 879>>, <<884, 885>>,
    <<890, 890>>, <<900, 901>>, <<903, 903>>, <<1155, 1161>>, <<1369, 1369>>, <<1375, 1375>>,
    <<1425, 1469>>, <<1471, 1471>>, <<1473, 1474>>, <<1476, 1477>>, <<1479, 1479>>, <<1524, 1524>>,
    <<1536, 1541>>, <<1552, 1562>>, <<1564, 1564>>, <<1600, 1600>>, <<1611, 1631>>, <<1648, 1648>>,
    <<1750, 1757>>, <<1759, 1768>>, <<1770, 1773>>, <<1807, 1807>>, <<1809, 1809>>, <<1840, 1866>>,
    <<1958, 1968>>, <<2027, 2037>>, <<2042, 2042>>, <<2045, 2045>>, <<2070, 2093>>, <<2137, 2139>>,
    <<2184, 2184>>, <<2192, 2193>>, <<2200, 2207>>, <<2249, 2306>>, <<2362, 2362>>, <<2364, 2364>>,
    <<2369, 2376>>, <<2381, 2381>>, <<2385, 2391>>, <<2402, 2403>>, <<2417, 2417>>, <<2433, 2433>>,
    <<2492, 2492>>, <<2497, 2500>>, <<2509, 2509>>, <<2530, 2531>>, <<2558, 2558>>, <<2561, 2562>>,
    <<2620, 2620>>, <<2625, 2626>>, <<2631, 2632>>, <<2635, 2637>>, <<2641, 2641>>, <<2672, 2673>>,
    <<2677, 2677>>, <<2689, 2690>>, <<2748, 2748>>, <<2753, 2757>>, <<2759, 2760>>, <<2765, 2765>>,
    <<2786, 2787>>, <<2810, 2815>>, <<2817, 2817>>, <<2876, 2876>>, <<2879, 2879>>, <<2881, 2884>>,
    <<2893, 2893>>, <<2901, 2902>>, <<2914, 2915>>, <<2946, 2946>>, <<3008, 3008>>, <<3021, 3021>>,
    <<3072, 3072>>, <<3076, 3076>>, <<3132, 3132>>, <<3134, 3136>>, <<3142, 3144>>, <<3146, 3149>>,
    <<3157, 3158>>, <<3170, 3171>>, <<3201, 3201>>, <<3260, 3260>>, <<3263, 3263>>, <<3270, 3270>>,
    <<3276, 3277>>, <<3298, 3299>>, <<3328, 3329>>, <<3387, 3388>>, <<3393, 3396>>, <<3405, 3405>>,
    <<3426, 3427>>, <<3457, 3457>>, <<3530, 3530>>, <<3538, 3540>>, <<3542, 3542>>, <<3633, 3633>>,
    <<3636, 3642>>, <<3654, 3662>>, <<3761, 3761>>, <<3764, 3772>>, <<3782, 3782>>, <<3784, 3789>>,
    <<3864, 3865>>, <<3893, 3893>>, <<3895, 3895>>, <<3897, 3897>>, <<3953, 3966>>, <<3968, 3972>>,
    <<3974, 3975>>, <<3981, 3991>>, <<3993, 4028>>, <<4038, 4038>>, <<4141, 4144>>, <<4146, 4151>>,
    <<4153, 4154>>, <<4157, 4158>>, <<4184, 4185>>, <<4190, 4192>>, <<4209, 4212>>, <<4226, 4226>>,
    <<4229, 4230>>, <<4237, 4237>>, <<4253, 4253>>, <<4348, 4348>>, <<4957, 4959>>, <<5906, 5908>>,
    <<5938, 5939>>, <<5970, 5971>>, <<6002, 6003>>, <<6068, 6069>>, <<6071, 6077>>, <<6086, 6086>>,
    <<6089, 6099>>, <<6103, 6103>>, <<6109, 6109>>, <<6155, 6159>>, <<6211, 6211>>, <<6277, 6278>>,
    <<6313, 6313>>, <<6432, 6434>>, <<6439, 6440>>, <<6450, 6450>>, <<6457, 6459>>, <<6679, 6680>>,
    <<6683, 6683>>, <<6742, 6742>>, <<6744, 6750>>, <<6752, 6752>>, <<6754, 6754>>, <<6757, 6764>>,
    <<6771, 6780>>, <<6783, 6783>>, <<6823, 6823>>, <<6832, 6862>>, <<6912, 6915>>, <<6964, 6964>>,
    <<6966, 6970>>, <<6972, 6972>>, <<6978, 6978>>, <<7019, 7027>>, <<7040, 7041>>, <<7074, 7077>>,
    <<7080, 7081>>, <<7083, 7085>>, <<7142, 7142>>, <<7144, 7145>>, <<7149, 7149>>, <<7151, 7153>>,
    <<7212, 7219>>, <<7222, 7223>>, <<7288, 7293>>, <<7376, 7378>>, <<7380, 7392>>, <<7394, 7400>>,
    <<7405, 7405>>, <<7412, 7412>>, <<7416, 7417>>, <<7468, 7530>>, <<7544, 7544>>, <<7579, 7679>>,
    <<8125, 8125>>, <<8127, 8129>>, <<8141, 8143>>, <<8157, 8159>>, <<8173, 8175>>, <<8189, 8190>>,
    <<8203, 8207>>, <<8216, 8217>>, <<8228, 8228>>, <<8231, 8231>>, <<8234, 8238>>, <<8288, 8292>>,
    <<8294, 8303>>, <<8305, 8305>>, <<8319, 8319>>, <<8336, 8348>>, <<8400, 8432>>, <<11388, 11389>>,
    <<11503, 11505>>, <<11631, 11631>>, <<11647, 11647>>, <<11744, 11775>>, <<11823, 11823>>, <<12293, 12293>>,
    <<12330, 12333>>, <<12337, 12341>>, <<12347, 12347>>, <<12441, 12446>>, <<12540, 12542>>, <<40981, 40981>>,
    <<42232, 42237>>, <<42508, 42508>>, <<42607, 42610>>, <<42612, 42621>>, <<42623, 42623>>, <<42652, 42655>>,
    <<42736, 42737>>, <<42752, 42785>>, <<42864, 42864>>, <<42888, 42890>>, <<42994, 42996>>, <<43000, 43001>>,
    <<43010, 43010>>, <<43014, 43014>>, <<43019, 43019>>, <<43045, 43046>>, <<43052, 43052>>, <<43204, 43205>>,
    <<43232, 43249>>, <<43263, 43263>>, <<43302, 43309>>, <<43335, 43345>>, <<43392, 43394>>, <<43443, 43443>>,
    <<43446, 43449>>, <<43452, 43453>>, <<43471, 43471>>, <<43493, 43494>>, <<43561, 43566>>, <<43569, 43570>>,
    <<43573, 43574>>, <<43587, 43587>>, <<43596, 43596>>, <<43632, 43632>>, <<43644, 43644>>, <<43696, 43696>>,
    <<43698, 43700>>, <<43703, 43704>>, <<43710, 43711>>, <<43713, 43713>>, <<43741, 43741>>, <<43756, 43757>>,
    <<43763, 43764>>, <<43766, 43766>>, <<43867, 43871>>, <<43881, 43883>>, <<44005, 44005>>, <<44008, 44008>>,
    <<44013, 44013>>, <<64286, 64286>>, <<64434, 64450>>, <<65024, 65039>>, <<65043, 65043>>, <<65056, 65071>>,
    <<65106, 65106>>, <<65109, 65109>>, <<65279, 65279>>, <<65287, 65287>>, <<65294, 65294>>, <<65306, 65306>>,
    <<65342, 65342>>, <<65344, 65344>>, <<65392, 65392>>, <<65438, 65439>>, <<65507, 65507>>, <<65529, 65531>>,
    <<66045, 66045>>, <<66272, 66272>>, <<66422, 66426>>, <<67456, 67461>>, <<67463, 67504>>, <<67506, 67514>>,
    <<68097, 68099>>, <<68101, 68102>>, <<68108, 68111>>, <<68152, 68154>>, <<68159, 68159>>, <<68325, 68326>>,
    <<68900, 68903>>, <<69291, 69292>>, <<69446, 69456>>, <<69506, 69509>>, <<69633, 69633>>, <<69688, 69702>>,
    <<69744, 69744>>, <<69747, 69748>>, <<69759, 69761>>, <<69811, 69814>>, <<69817, 69818>>, <<69821, 69821>>,
    <<69826, 69826>>, <<69837, 69837>>, <<69888, 69890>>, <<69927, 69931>>, <<69933, 69940>>, <<70003, 70003>>,
    <<70016, 70017>>, <<70070, 70078>>, <<70089, 70092>>, <<70095, 70095>>, <<70191, 70193>>, <<70196, 70196>>,
    <<70198, 70199>>, <<70206, 70206>>, <<70367, 70367>>, <<70371, 70378>>, <<70400, 70401>>, <<70459, 70460>>,
    <<70464, 70464>>, <<70502, 70508>>, <<70512, 70516>>, <<70712, 70719>>, <<70722, 70724>>, <<70726, 70726>>,
    <<70750, 70750>>, <<70835, 70840>>, <<70842, 70842>>, <<70847, 70848>>, <<70850, 70851>>, <<71090, 71093>>,
    <<71100, 71101>>, <<71103, 71104>>, <<71132, 71133>>, <<71219, 71226>>, <<71229, 71229>>, <<71231, 71232>>,
    <<71339, 71339>>, <<71341, 71341>>, <<71344, 71349>>, <<71351, 71351>>, <<71453, 71455>>, <<71458, 71461>>,
    <<71463, 71467>>, <<71727, 71735>>, <<71737, 71738>>, <<71995, 71996>>, <<71998, 71998>>, <<72003, 72003>>,
    <<72148, 72151>>, <<72154, 72155>>, <<72160, 72160>>, <<72193, 72202>>, <<72243, 72248>>, <<72251, 72254>>,
    <<72263, 72263>>, <<72273, 72278>>, <<72281, 72283>>, <<72330, 72342>>, <<72344, 72345>>, <<72752, 72758>>,
    <<72760, 72765>>, <<72767, 72767>>, <<72850, 72871>>, <<72874, 72880>>, <<72882, 72883>>, <<72885, 72886>>,
    <<73009, 73014>>, <<73018, 73018>>, <<73020, 73021>>, <<73023, 73029>>, <<73031, 73031>>, <<73104, 73105>>,
    <<73109, 73109>>, <<73111, 73111>>, <<73459, 73460>>, <<78896, 78904>>, <<92912, 92916>>, <<92976, 92982>>,
    <<92992, 92995>>, <<94031, 94031>>, <<94095, 94111>>, <<94176, 94177>>, <<94179, 94180>>, <<110576, 110579>>,
    <<110581, 110587>>, <<110589, 110590>>, <<113821, 113822>>, <<113824, 113827>>, <<118528, 118573>>, <<118576, 118598>>,
    <<119143, 119145>>, <<119155, 119170>>, <<119173, 119179>>, <<119210, 119213>>, <<119362, 119364>>, <<121344, 121398>>,
    <<121403, 121452>>, <<121461, 121461>>, <<121476, 121476>>, <<121499, 121503>>, <<121505, 121519>>, <<122880, 122886>>,
    <<122888, 122904>>, <<122907, 122913>>, <<122915, 122916>>, <<122918, 122922>>, <<123184, 123197>>, <<123566, 123566>>,
    <<123628, 123631>>, <<125136, 125142>>, <<125252, 125259>>, <<127995, 127999>>, <<917505, 917505>>, <<917536, 917631>>,
    <<917760, 917999>> >>

\* str.lower(): <<lo, hi, step, delta>> sends lo, lo + step, ..., hi to
\* themselves plus delta
LOWER_RANGES == <<
    <<65, 90, 1, 32>>, <<192, 214, 1, 32>>, <<216, 222, 1, 32>>, <<256, 302, 2, 1>>, <<306, 310, 2, 1>>,
    <<313, 327, 2, 1>>, <<330, 374, 2, 1>>, <<376, 376, 1, -121>>, <<377, 381, 2, 1>>, <<385, 385, 1, 210>>,
    <<386, 388, 2, 1>>, <<390, 390, 1, 206>>, <<391, 391, 1, 1>>, <<393, 394, 1, 205>>, <<395, 395, 1, 1>>,
    <<398, 398, 1, 79>>, <<399, 399, 1, 202>>, <<400, 400, 1, 203>>, <<401, 401, 1, 1>>, <<403, 403, 1, 205>>,
    <<404, 404, 1, 207>>, <<406, 406, 1, 211>>, <<407, 407, 1, 209>>, <<408, 408, 1, 1>>, <<412, 412, 1, 211>>,
    <<413, 413, 1, 213>>, <<415, 415, 1, 214>>, <<416, 420, 2, 1>>, <<422, 422, 1, 218>>, <<423, 423, 1, 1>>,
    <<425, 425, 1, 218>>, <<428, 428, 1, 1>>, <<430, 430, 1, 218>>, <<431, 431, 1, 1>>, <<433, 434, 1, 217>>,
    <<435, 437, 2, 1>>, <<439, 439, 1, 219>>, <<440, 440, 1, 1>>, <<444, 444, 1, 1>>, <<452, 452, 1, 2>>,
    <<453, 453, 1, 1>>, <<455, 455, 1, 2>>, <<456, 456, 1, 1>>, <<458, 458, 1, 2>>, <<459, 475, 2, 1>>,
    <<478, 494, 2, 1>>, <<497, 497, 1, 2>>, <<498, 500, 2, 1>>, <<502, 502, 1, -97>>, <<503, 503, 1, -56>>,
    <<504, 542, 2, 1>>, <<544, 544, 1, -130>>, <<546, 562, 2, 1>>, <<570, 570, 1, 10795>>, <<571, 571, 1, 1>>,
    <<573, 573, 1, -163>>, <<574, 574, 1, 10792>>, <<577, 577, 1, 1>>, <<579, 579, 1, -195>>, <<580, 580, 1, 69>>,
    <<581, 581, 1, 71>>, <<582, 590, 2, 1>>, <<880, 882, 2, 1>>, <<886, 886, 1, 1>>, <<895, 895, 1, 116>>,
    <<902, 902, 1, 38>>, <<904, 906, 1, 37>>, <<908, 908, 1, 64>>, <<910, 911, 1, 63>>, <<913, 929, 1, 32>>,
    <<931, 939, 1, 32>>, <<975, 975, 1, 8>>, <<984, 1006, 2, 1>>, <<1012, 1012, 1, -60>>, <<1015, 1015, 1, 1>>,
    <<1017, 1017, 1, -7>>, <<1018, 1018, 1, 1>>, <<1021, 1023, 1, -130>>, <<1024, 1039, 1, 80>>, <<1040, 1071, 1, 32>>,
    <<1120, 1152, 2, 1>>, <<1162, 1214, 2, 1>>, <<1216, 1216, 1, 15>>, <<1217, 1229, 2, 1>>, <<1232, 1326, 2, 1>>,
    <<1329, 1366, 1, 48>>, <<4256, 4293, 1, 7264>>, <<4295, 4295, 1, 7264>>, <<4301, 4301, 1, 7264>>, <<5024, 5103, 1, 38864>>,
    <<5104, 5109, 1, 8>>, <<7312, 7354, 1, -3008>>, <<7357, 7359, 1, -3008>>, <<7680, 7828, 2, 1>>, <<7838, 7838, 1, -7615>>,
    <<7840, 7934, 2, 1>>, <<7944, 7951, 1, -8>>, <<7960, 7965, 1, -8>>, <<7976, 7983, 1, -8>>, <<7992, 7999, 1, -8>>,
    <<8008, 8013, 1, -8>>, <<8025, 8031, 2, -8>>, <<8040, 8047, 1, -8>>, <<8072, 8079, 1, -8>>, <<8088, 8095, 1, -8>>,
    <<8104, 8111, 1, -8>>, <<8120, 8121, 1, -8>>, <<8122, 8123, 1, -74>>, <<8124, 8124, 1, -9>>, <<8136, 8139, 1, -86>>,
    <<8140, 8140, 1, -9>>, <<8152, 8153, 1, -8>>, <<8154, 8155, 1, -100>>, <<8168, 8169, 1, -8>>, <<8170, 8171, 1, -112>>,
    <<8172, 8172, 1, -7>>, <<8184, 8185, 1, -128>>, <<8186, 8187, 1, -126>>, <<8188, 8188, 1, -9>>, <<8486, 8486, 1, -7517>>,
    <<8490, 8490, 1, -8383>>, <<8491, 8491, 1, -8262>>, <<8498, 8498, 1, 28>>, <<8544, 8559, 1, 16>>, <<8579, 8579, 1, 1>>,
    <<9398, 9423, 1, 26>>, <<11264, 11311, 1, 48>>, <<11360, 11360, 1, 1>>, <<11362, 11362, 1, -10743>>, <<11363, 11363, 1, -3814>>,
    <<11364, 11364, 1, -10727>>, <<11367, 11371, 2, 1>>, <<11373, 11373, 1, -10780>>, <<11374, 11374, 1, -10749>>, <<11375, 11375, 1, -10783>>,
    <<11376, 11376, 1, -10782>>, <<11378, 11378, 1, 1>>, <<11381, 11381, 1, 1>>, <<11390, 11391, 1, -10815>>, <<11392, 11490, 2, 1>>,
    <<11499, 11501, 2, 1>>, <<11506, 11506, 1, 1>>, <<42560, 42604, 2, 1>>, <<42624, 42650, 2, 1>>, <<42786, 42798, 2, 1>>,
    <<42802, 42862, 2, 1>>, <<42873, 42875, 2, 1>>, <<42877, 42877, 1, -35332>>, <<42878, 42886, 2, 1>>, <<42891, 42891, 1, 1>>,
    <<42893, 42893, 1, -42280>>, <<42896, 42898, 2, 1>>, <<42902, 42920, 2, 1>>, <<42922, 42922, 1, -42308>>, <<42923, 42923, 1, -42319>>,
    <<42924, 42924, 1, -42315>>, <<42925, 42925, 1, -42305>>, <<42926, 42926, 1, -42308>>, <<42928, 42928, 1, -42258>>, <<42929, 42929, 1, -42282>>,
    <<42930, 42930, 1, -42261>>, <<42931, 42931, 1, 928>>, <<42932, 42946, 2, 1>>, <<42948, 42948, 1, -48>>, <<42949, 42949, 1, -42307>>,
    <<42950, 42950, 1, -35384>>, <<42951, 42953, 2, 1>>, <<42960, 42960, 1, 1>>, <<42966, 42968, 2, 1>>, <<42997, 42997, 1, 1>>,
    <<65313, 65338, 1, 32>>, <<66560, 66599, 1, 40>>, <<66736, 66771, 1, 40>>, <<66928, 66964, 2, 39>>, <<66929, 66938, 1, 39>>,
    <<66941, 66954, 1, 39>>, <<66957, 66962, 1, 39>>, <<66965, 66965, 1, 39>>, <<68736, 68786, 1, 64>>, <<71840, 71871, 1, 32>>,
    <<93760, 93791, 1, 32>>, <<125184, 125217, 1, 34>> >>

\* str.lower(): the code points with an image of several code points
LOWER_SPECIAL == <<
    <<304, <<105, 775>>>> >>

\* str.upper(), as LOWER_RANGES
UPPER_RANGES == <<
    <<97, 122, 1, -32>>, <<181, 181, 1, 743>>, <<224, 246, 1, -32>>, <<248, 254, 1, -32>>, <<255, 255, 1, 121>>,
    <<257, 303, 2, -1>>, <<305, 305, 1, -232>>, <<307, 311, 2, -1>>, <<314, 328, 2, -1>>, <<331, 375, 2, -1>>,
    <<378, 382, 2, -1>>, <<383, 383, 1, -300>>, <<384, 384, 1, 195>>, <<387, 389, 2, -1>>, <<392, 392, 1, -1>>,
    <<396, 396, 1, -1>>, <<402, 402, 1, -1>>, <<405, 405, 1, 97>>, <<409, 409, 1, -1>>, <<410, 410, 1, 163>>,
    <<414, 414, 1, 130>>, <<417, 421, 2, -1>>, <<424, 424, 1, -1>>, <<429, 429, 1, -1>>, <<432, 432, 1, -1>>,
    <<436, 438, 2, -1>>, <<441, 441, 1, -1>>, <<445, 445, 1, -1>>, <<447, 447, 1, 56>>, <<453, 453, 1, -1>>,
    <<454, 454, 1, -2>>, <<456, 456, 1, -1>>, <<457, 457, 1, -2>>, <<459, 459, 1, -1>>, <<460, 460, 1, -2>>,
    <<462, 476, 2, -1>>, <<477, 477, 1, -79>>, <<479, 495, 2, -1>>, <<498, 498, 1, -1>>, <<499, 499, 1, -2>>,
    <<501, 501, 1, -1>>, <<505, 543, 2, -1>>, <<547, 563, 2, -1>>, <<572, 572, 1, -1>>, <<575, 576, 1, 10815>>,
    <<578, 578, 1, -1>>, <<583, 591, 2, -1>>, <<592, 592, 1, 10783>>, <<593, 593, 1, 10780>>, <<594, 594, 1, 10782>>,
    <<595, 595, 1, -210>>, <<596, 596, 1, -206>>, <<598, 599, 1, -205>>, <<601, 601, 1, -202>>, <<603, 603, 1, -203>>,
    <<604, 604, 1, 42319>>, <<608, 608, 1, -205>>, <<609, 609, 1, 42315>>, <<611, 611, 1, -207>>, <<613, 613, 1, 42280>>,
    <<614, 614, 1, 42308>>, <<616, 616, 1, -209>>, <<617, 617, 1, -211>>, <<618, 618, 1, 42308>>, <<619, 619, 1, 10743>>,
    <<620, 620, 1, 42305>>, <<623, 623, 1, -211>>, <<625, 625, 1, 10749>>, <<626, 626, 1, -213>>, <<629, 629, 1, -214>>,
    <<637, 637, 1, 10727>>, <<640, 640, 1, -218>>, <<642, 642, 1, 42307>>, <<643, 643, 1, -218>>, <<647, 647, 1, 42282>>,
    <<648, 648, 1, -218>>, <<649, 649, 1, -69>>, <<650, 651, 1, -217>>, <<652, 652, 1, -71>>, <<658, 658, 1, -219>>,
    <<669, 669, 1, 42261>>, <<670, 670, 1, 42258>>, <<837, 837, 1, 84>>, <<881, 883, 2, -1>>, <<887, 887, 1, -1>>,
    <<891, 893, 1, 130>>, <<940, 940, 1, -38>>, <<941, 943, 1, -37>>, <<945, 961, 1, -32>>, <<962, 962, 1, -31>>,
    <<963, 971, 1, -32>>, <<972, 972, 1, -64>>, <<973, 974, 1, -63>>, <<976, 976, 1, -62>>, <<977, 977, 1, -57>>,
    <<981, 981, 1, -47>>, <<982, 982, 1, -54>>, <<983, 983, 1, -8>>, <<985, 1007, 2, -1>>, <<1008, 1008, 1, -86>>,
    <<1009, 1009, 1, -80>>, <<1010, 1010, 1, 7>>, <<1011, 1011, 1, -116>>, <<1013, 1013, 1, -96>>, <<1016, 1016, 1, -1>>,
    <<1019, 1019, 1, -1>>, <<1072, 1103, 1, -32>>, <<1104, 1119, 1, -80>>, <<1121, 1153, 2, -1>>, <<1163, 1215, 2, -1>>,
    <<1218, 1230, 2, -1>>, <<1231, 1231, 1, -15>>, <<1233, 1327, 2, -1>>, <<1377, 1414, 1, -48>>, <<4304, 4346, 1, 3008>>,
    <<4349, 4351, 1, 3008>>, <<5112, 5117, 1, -8>>, <<7296, 7296, 1, -6254>>, <<7297, 7297, 1, -6253>>, <<7298, 7298, 1, -6244>>,
    <<7299, 7300, 1, -6242>>, <<7301, 7301, 1, -6243>>, <<7302, 7302, 1, -6236>>, <<7303, 7303, 1, -6181>>, <<7304, 7304, 1, 35266>>,
    <<7545, 7545, 1, 35332>>, <<7549, 7549, 1, 3814>>, <<7566, 7566, 1, 35384>>, <<7681, 7829, 2, -1>>, <<7835, 7835, 1, -59>>,
    <<7841, 7935, 2, -1>>, <<7936, 7943, 1, 8>>, <<7952, 7957, 1, 8>>, <<7968, 7975, 1, 8>>, <<7984, 7991, 1, 8>>,
    <<8000, 8005, 1, 8>>, <<8017, 8023, 2, 8>>, <<8032, 8039, 1, 8>>, <<8048, 8049, 1, 74>>, <<8050, 8053, 1, 86>>,
    <<8054, 8055, 1, 100>>, <<8056, 8057, 1, 128>>, <<8058, 8059, 1, 112>>, <<8060, 8061, 1, 126>>, <<8112, 8113, 1, 8>>,
    <<8126, 8126, 1, -7205>>, <<8144, 8145, 1, 8>>, <<8160, 8161, 1, 8>>, <<8165, 8165, 1, 7>>, <<8526, 8526, 1, -28>>,
    <<8560, 8575, 1, -16>>, <<8580, 8580, 1, -1>>, <<9424, 9449, 1, -26>>, <<11312, 11359, 1, -48>>, <<11361, 11361, 1, -1>>,
    <<11365, 11365, 1, -10795>>, <<11366, 11366, 1, -10792>>, <<11368, 11372, 2, -1>>, <<11379, 11379, 1, -1>>, <<11382, 11382, 1, -1>>,
    <<11393, 11491, 2, -1>>, <<11500, 11502, 2, -1>>, <<11507, 11507, 1, -1>>, <<11520, 11557, 1, -7264>>, <<11559, 11559, 1, -7264>>,
    <<11565, 11565, 1, -7264>>, <<42561, 42605, 2, -1>>, <<42625, 42651, 2, -1>>, <<42787, 42799, 2, -1>>, <<42803, 42863, 2, -1>>,
    <<42874, 42876, 2, -1>>, <<42879, 42887, 2, -1>>, <<42892, 42892, 1, -1>>, <<42897, 42899, 2, -1>>, <<42900, 42900, 1, 48>>,
    <<42903, 42921, 2, -1>>, <<42933, 42947, 2, -1>>, <<42952, 42954, 2, -1>>, <<42961, 42961, 1, -1>>, <<42967, 42969, 2, -1>>,
    <<42998, 42998, 1, -1>>, <<43859, 43859, 1, -928>>, <<43888, 43967, 1, -38864>>, <<65345, 65370, 1, -32>>, <<66600, 66639, 1, -40>>,
    <<66776, 66811, 1, -40>>, <<66967, 67003, 2, -39>>, <<66968, 66977, 1, -39>>, <<66980, 66993, 1, -39>>, <<66996, 67001, 1, -39>>,
    <<67004, 67004, 1, -39>>, <<68800, 68850, 1, -64>>, <<71872, 71903, 1, -32>>, <<93792, 93823, 1, -32>>, <<125218, 125251, 1, -34>> >>

\* str.upper(), as LOWER_SPECIAL
UPPER_SPECIAL == <<
    <<223, <<83, 83>>>>, <<329, <<700, 78>>>>, <<496, <<74, 780>>>>, <<912, <<921, 776, 769>>>>,
    <<944, <<933, 776, 769>>>>, <<1415, <<1333, 1362>>>>, <<7830, <<72, 817>>>>, <<7831, <<84, 776>>>>,
    <<7832, <<87, 778>>>>, <<7833, <<89, 778>>>>, <<7834, <<65, 702>>>>, <<8016, <<933, 787>>>>,
    <<8018, <<933, 787, 768>>>>, <<8020, <<933, 787, 769>>>>, <<8022, <<933, 787, 834>>>>, <<8064, <<7944, 921>>>>,
    <<8065, <<7945, 921>>>>, <<8066, <<7946, 921>>>>, <<8067, <<7947, 921>>>>, <<8068, <<7948, 921>>>>,
    <<8069, <<7949, 921>>>>, <<8070, <<7950, 921>>>>, <<8071, <<7951, 921>>>>, <<8072, <<7944, 921>>>>,
    <<8073, <<7945, 921>>>>, <<8074, <<7946, 921>>>>, <<8075, <<7947, 921>>>>, <<8076, <<7948, 921>>>>,
    <<8077, <<7949, 921>>>>, <<8078, <<7950, 921>>>>, <<8079, <<7951, 921>>>>, <<8080, <<7976, 921>>>>,
    <<8081, <<7977, 921>>>>, <<8082, <<7978, 921>>>>, <<8083, <<7979, 921>>>>, <<8084, <<7980, 921>>>>,
    <<8085, <<7981, 921>>>>, <<8086, <<7982, 921>>>>, <<8087, <<7983, 921>>>>, <<8088, <<7976, 921>>>>,
    <<8089, <<7977, 921>>>>, <<8090, <<7978, 921>>>>, <<8091, <<7979, 921>>>>, <<8092, <<7980, 921>>>>,
    <<8093, <<7981, 921>>>>, <<8094, <<7982, 921>>>>, <<8095, <<7983, 921>>>>, <<8096, <<8040, 921>>>>,
    <<8097, <<8041, 921>>>>, <<8098, <<8042, 921>>>>, <<8099, <<8043, 921>>>>, <<8100, <<8044, 921>>>>,
    <<8101, <<8045, 921>>>>, <<8102, <<8046, 921>>>>, <<8103, <<8047, 921>>>>, <<8104, <<8040, 921>>>>,
    <<8105, <<8041, 921>>>>, <<8106, <<8042, 921>>>>, <<8107, <<8043, 921>>>>, <<8108, <<8044, 921>>>>,
    <<8109, <<8045, 921>>>>, <<8110, <<8046, 921>>>>, <<8111, <<8047, 921>>>>, <<8114, <<8122, 921>>>>,
    <<8115, <<913, 921>>>>, <<8116, <<902, 921>>>>, <<8118, <<913, 834>>>>, <<8119, <<913, 834, 921>>>>,
    <<8124, <<913, 921>>>>, <<8130, <<8138, 921>>>>, <<8131, <<919, 921>>>>, <<8132, <<905, 921>>>>,
    <<8134, <<919, 834>>>>, <<8135, <<919, 834, 921>>>>, <<8140, <<919, 921>>>>, <<8146, <<921, 776, 768>>>>,
    <<8147, <<921, 776, 769>>>>, <<8150, <<921, 834>>>>, <<8151, <<921, 776, 834>>>>, <<8162, <<933, 776, 768>>>>,
    <<8163, <<933, 776, 769>>>>, <<8164, <<929, 787>>>>, <<8166, <<933, 834>>>>, <<8167, <<933, 776, 834>>>>,
    <<8178, <<8186, 921>>>>, <<8179, <<937, 921>>>>, <<8180, <<911, 921>>>>, <<8182, <<937, 834>>>>,
    <<8183, <<937, 834, 921>>>>, <<8188, <<937, 921>>>>, <<64256, <<70, 70>>>>, <<64257, <<70, 73>>>>,
    <<64258, <<70, 76>>>>, <<64259, <<70, 70, 73>>>>, <<64260, <<70, 70, 76>>>>, <<64261, <<83, 84>>>>,
    <<64262, <<83, 84>>>>, <<64275, <<1348, 1350>>>>, <<64276, <<1348, 1333>>>>, <<64277, <<1348, 1339>>>>,
    <<64278, <<1358, 1350>>>>, <<64279, <<1348, 1341>>>> >>

\* not str.isprintable(): the code points repr() writes as an escape
UNPRINTABLE_RANGES == <<
    <<0, 31>>, <<127, 160>>, <<173, 173>>, <<888, 889>>, <<896, 899>>, <<907, 907>>,
    <<909, 909>>, <<930, 930>>, <<1328, 1328>>, <<1367, 1368>>, <<1419, 1420>>, <<1424, 1424>>,
    <<1480, 1487>>, <<1515, 1518>>, <<1525, 1541>>, <<1564, 1564>>, <<1757, 1757>>, <<1806, 1807>>,
    <<1867, 1868>>, <<1970, 1983>>, <<2043, 2044>>, <<2094, 2095>>, <<2111, 2111>>, <<2140, 2141>>,
    <<2143, 2143>>, <<2155, 2159>>, <<2191, 2199>>, <<2274, 2274>>, <<2436, 2436>>, <<2445, 2446>>,
    <<2449, 2450>>, <<2473, 2473>>, <<2481, 2481>>, <<2483, 2485>>, <<2490, 2491>>, <<2501, 2502>>,
    <<2505, 2506>>, <<2511, 2518>>, <<2520, 2523>>, <<2526, 2526>>, <<2532, 2533>>, <<2559, 2560>>,
    <<2564, 2564>>, <<2571, 2574>>, <<2577, 2578>>, <<2601, 2601>>, <<2609, 2609>>, <<2612, 2612>>,
    <<2615, 2615>>, <<2618, 2619>>, <<2621, 2621>>, <<2627, 2630>>, <<2633, 2634>>, <<2638, 2640>>,
    <<2642, 2648>>, <<2653, 2653>>, <<2655, 2661>>, <<2679, 2688>>, <<2692, 2692>>, <<2702, 2702>>,
    <<2706, 2706>>, <<2729, 2729>>, <<2737, 2737>>, <<2740, 2740>>, <<2746, 2747>>, <<2758, 2758>>,
    <<2762, 2762>>, <<2766, 2767>>, <<2769, 2783>>, <<2788, 2789>>, <<2802, 2808>>, <<2816, 2816>>,
    <<2820, 2820>>, <<2829, 2830>>, <<2833, 2834>>, <<2857, 2857>>, <<2865, 2865>>, <<2868, 2868>>,
    <<2874, 2875>>, <<2885, 2886>>, <<2889, 2890>>, <<2894, 2900>>, <<2904, 2907>>, <<2910, 2910>>,
    <<2916, 2917>>, <<2936, 2945>>, <<2948, 2948>>, <<2955, 2957>>, <<2961, 2961>>, <<2966, 2968>>,
    <<2971, 2971>>, <<2973, 2973>>, <<2976, 2978>>, <<2981, 2983>>, <<2987, 2989>>, <<3002, 3005>>,
    <<3011, 3013>>, <<3017, 3017>>, <<3022, 3023>>, <<3025, 3030>>, <<3032, 3045>>, <<3067, 3071>>,
    <<3085, 3085>>, <<3089, 3089>>, <<3113, 3113>>, <<3130, 3131>>, <<3141, 3141>>, <<3145, 3145>>,
    <<3150, 3156>>, <<3159, 3159>>, <<3163, 3164>>, <<3166, 3167>>, <<3172, 3173>>, <<3184, 3190>>,
    <<3213, 3213>>, <<3217, 3217>>, <<3241, 3241>>, <<3252, 3252>>, <<3258, 3259>>, <<3269, 3269>>,
    <<3273, 3273>>, <<3278, 3284>>, <<3287, 3292>>, <<3295, 3295>>, <<3300, 3301>>, <<3312, 3312>>,
    <<3315, 3327>>, <<3341, 3341>>, <<3345, 3345>>, <<3397, 3397>>, <<3401, 3401>>, <<3408, 3411>>,
    <<3428, 3429>>, <<3456, 3456>>, <<3460, 3460>>, <<3479, 3481>>, <<3506, 3506>>, <<3516, 3516>>,
    <<3518, 3519>>, <<3527, 3529>>, <<3531, 3534>>, <<3541, 3541>>, <<3543, 3543>>, <<3552, 3557>>,
    <<3568, 3569>>, <<3573, 3584>>, <<3643, 3646>>, <<3676, 3712>>, <<3715, 3715>>, <<3717, 3717>>,
    <<3723, 3723>>, <<3748, 3748>>, <<3750, 3750>>, <<3774, 3775>>, <<3781, 3781>>, <<3783, 3783>>,
    <<3790, 3791>>, <<3802, 3803>>, <<3808, 3839>>, <<3912, 3912>>, <<3949, 3952>>, <<3992, 3992>>,
    <<4029, 4029>>, <<4045, 4045>>, <<4059, 4095>>, <<4294, 4294>>, <<4296, 4300>>, <<4302, 4303>>,
    <<4681, 4681>>, <<4686, 4687>>, <<4695, 4695>>, <<4697, 4697>>, <<4702, 4703>>, <<4745, 4745>>,
    <<4750, 4751>>, <<4785, 4785>>, <<4790, 4791>>, <<4799, 4799>>, <<4801, 4801>>, <<4806, 4807>>,
    <<4823, 4823>>, <<4881, 4881>>, <<4886, 4887>>, <<4955, 4956>>, <<4989, 4991>>, <<5018, 5023>>,
    <<5110, 5111>>, <<5118, 5119>>, <<5760, 5760>>, <<5789, 5791>>, <<5881, 5887>>, <<5910, 5918>>,
    <<5943, 5951>>, <<5972, 5983>>, <<5997, 5997>>, <<6001, 6001>>, <<6004, 6015>>, <<6110, 6111>>,
    <<6122, 6127>>, <<6138, 6143>>, <<6158, 6158>>, <<6170, 6175>>, <<6265, 6271>>, <<6315, 6319>>,
    <<6390, 6399>>, <<6431, 6431>>, <<6444, 6447>>, <<6460, 6463>>, <<6465, 6467>>, <<6510, 6511>>,
    <<6517, 6527>>, <<6572, 6575>>, <<6602, 6607>>, <<6619, 6621>>, <<6684, 6685>>, <<6751, 6751>>,
    <<6781, 6782>>, <<6794, 6799>>, <<6810, 6815>>, <<6830, 6831>>, <<6863, 6911>>, <<6989, 6991>>,
    <<7039, 7039>>, <<7156, 7163>>, <<7224, 7226>>, <<7242, 7244>>, <<7305, 7311>>, <<7355, 7356>>,
    <<7368, 7375>>, <<7419, 7423>>, <<7958, 7959>>, <<7966, 7967>>, <<8006, 8007>>, <<8014, 8015>>,
    <<8024, 8024>>, <<8026, 8026>>, <<8028, 8028>>, <<8030, 8030>>, <<8062, 8063>>, <<8117, 8117>>,
    <<8133, 8133>>, <<8148, 8149>>, <<8156, 8156>>, <<8176, 8177>>, <<8181, 8181>>, <<8191, 8207>>,
    <<8232, 8239>>, <<8287, 8303>>, <<8306, 8307>>, <<8335, 8335>>, <<8349, 8351>>, <<8385, 8399>>,
    <<8433, 8447>>, <<8588, 8591>>, <<9255, 9279>>, <<9291, 9311>>, <<11124, 11125>>, <<11158, 11158>>,
    <<11508, 11512>>, <<11558, 11558>>, <<11560, 11564>>, <<11566, 11567>>, <<11624, 11630>>, <<11633, 11646>>,
    <<11671, 11679>>, <<11687, 11687>>, <<11695, 11695>>, <<11703, 11703>>, <<11711, 11711>>, <<11719, 11719>>,
    <<11727, 11727>>, <<11735, 11735>>, <<11743, 11743>>, <<11870, 11903>>, <<11930, 11930>>, <<12020, 12031>>,
    <<12246, 12271>>, <<12284, 12288>>, <<12352, 12352>>, <<12439, 12440>>, <<12544, 12548>>, <<12592, 12592>>,
    <<12687, 12687>>, <<12772, 12783>>, <<12831, 12831>>, <<42125, 42127>>, <<42183, 42191>>, <<42540, 42559>>,
    <<42744, 42751>>, <<42955, 42959>>, <<42962, 42962>>, <<42964, 42964>>, <<42970, 42993>>, <<43053, 43055>>,
    <<43066, 43071>>, <<43128, 43135>>, <<43206, 43213>>, <<43226, 43231>>, <<43348, 43358>>, <<43389, 43391>>,
    <<43470, 43470>>, <<43482, 43485>>, <<43519, 43519>>, <<43575, 43583>>, <<43598, 43599>>, <<43610, 43611>>,
    <<43715, 43738>>, <<43767, 43776>>, <<43783, 43784>>, <<43791, 43792>>, <<43799, 43807>>, <<43815, 43815>>,
    <<43823, 43823>>, <<43884, 43887>>, <<44014, 44015>>, <<44026, 44031>>, <<55204, 55215>>, <<55239, 55242>>,
    <<55292, 63743>>, <<64110, 64111>>, <<64218, 64255>>, <<64263, 64274>>, <<64280, 64284>>, <<64311, 64311>>,
    <<64317, 64317>>, <<64319, 64319>>, <<64322, 64322>>, <<64325, 64325>>, <<64451, 64466>>, <<64912, 64913>>,
    <<64968, 64974>>, <<64976, 65007>>, <<65050, 65055>>, <<65107, 65107>>, <<65127, 65127>>, <<65132, 65135>>,
    <<65141, 65141>>, <<65277, 65280>>, <<65471, 65473>>, <<65480, 65481>>, <<65488, 65489>>, <<65496, 65497>>,
    <<65501, 65503>>, <<65511, 65511>>, <<65519, 65531>>, <<65534, 65535>>, <<65548, 65548>>, <<65575, 65575>>,
    <<65595, 65595>>, <<65598, 65598>>, <<65614, 65615>>, <<65630, 65663>>, <<65787, 65791>>, <<65795, 65798>>,
    <<65844, 65846>>, <<65935, 65935>>, <<65949, 65951>>, <<65953, 65999>>, <<66046, 66175>>, <<66205, 66207>>,
    <<66257, 66271>>, <<66300, 66303>>, <<66340, 66348>>, <<66379, 66383>>, <<66427, 66431>>, <<66462, 66462>>,
    <<66500, 66503>>, <<66518, 66559>>, <<66718, 66719>>, <<66730, 66735>>, <<66772, 66775>>, <<66812, 66815>>,
    <<66856, 66863>>, <<66916, 66926>>, <<66939, 66939>>, <<66955, 66955>>, <<66963, 66963>>, <<66966, 66966>>,
    <<66978, 66978>>, <<66994, 66994>>, <<67002, 67002>>, <<67005, 67071>>, <<67383, 67391>>, <<67414, 67423>>,
    <<67432, 67455>>, <<67462, 67462>>, <<67505, 67505>>, <<67515, 67583>>, <<67590, 67591>>, <<67593, 67593>>,
    <<67638, 67638>>, <<67641, 67643>>, <<67645, 67646>>, <<67670, 67670>>, <<67743, 67750>>, <<67760, 67807>>,
    <<67827, 67827>>, <<67830, 67834>>, <<67868, 67870>>, <<67898, 67902>>, <<67904, 67967>>, <<68024, 68027>>,
    <<68048, 68049>>, <<68100, 68100>>, <<68103, 68107>>, <<68116, 68116>>, <<68120, 68120>>, <<68150, 68151>>,
    <<68155, 68158>>, <<68169, 68175>>, <<68185, 68191>>, <<68256, 68287>>, <<68327, 68330>>, <<68343, 68351>>,
    <<68406, 68408>>, <<68438, 68439>>, <<68467, 68471>>, <<68498, 68504>>, <<68509, 68520>>, <<68528, 68607>>,
    <<68681, 68735>>, <<68787, 68799>>, <<68851, 68857>>, <<68904, 68911>>, <<68922, 69215>>, <<69247, 69247>>,
    <<69290, 69290>>, <<69294, 69295>>, <<69298, 69375>>, <<69416, 69423>>, <<69466, 69487>>, <<69514, 69551>>,
    <<69580, 69599>>, <<69623, 69631>>, <<69710, 69713>>, <<69750, 69758>>, <<69821, 69821>>, <<69827, 69839>>,
    <<69865, 69871>>, <<69882, 69887>>, <<69941, 69941>>, <<69960, 69967>>, <<70007, 70015>>, <<70112, 70112>>,
    <<70133, 70143>>, <<70162, 70162>>, <<70207, 70271>>, <<70279, 70279>>, <<70281, 70281>>, <<70286, 70286>>,
    <<70302, 70302>>, <<70314, 70319>>, <<70379, 70383>>, <<70394, 70399>>, <<70404, 70404>>, <<70413, 70414>>,
    <<70417, 70418>>, <<70441, 70441>>, <<70449, 70449>>, <<70452, 70452>>, <<70458, 70458>>, <<70469, 70470>>,
    <<70473, 70474>>, <<70478, 70479>>, <<70481, 70486>>, <<70488, 70492>>, <<70500, 70501>>, <<70509, 70511>>,
    <<70517, 70655>>, <<70748, 70748>>, <<70754, 70783>>, <<70856, 70863>>, <<70874, 71039>>, <<71094, 71095>>,
    <<71134, 71167>>, <<71237, 71247>>, <<71258, 71263>>, <<71277, 71295>>, <<71354, 71359>>, <<71370, 71423>>,
    <<71451, 71452>>, <<71468, 71471>>, <<71495, 71679>>, <<71740, 71839>>, <<71923, 71934>>, <<71943, 71944>>,
    <<71946, 71947>>, <<71956, 71956>>, <<71959, 71959>>, <<71990, 71990>>, <<71993, 71994>>, <<72007, 72015>>,
    <<72026, 72095>>, <<72104, 72105>>, <<72152, 72153>>, <<72165, 72191>>, <<72264, 72271>>, <<72355, 72367>>,
    <<72441, 72703>>, <<72713, 72713>>, <<72759, 72759>>, <<72774, 72783>>, <<72813, 72815>>, <<72848, 72849>>,
    <<72872, 72872>>, <<72887, 72959>>, <<72967, 72967>>, <<72970, 72970>>, <<73015, 73017>>, <<73019, 73019>>,
    <<73022, 73022>>, <<73032, 73039>>, <<73050, 73055>>, <<73062, 73062>>, <<73065, 73065>>, <<73103, 73103>>,
    <<73106, 73106>>, <<73113, 73119>>, <<73130, 73439>>, <<73465, 73647>>, <<73649, 73663>>, <<73714, 73726>>,
    <<74650, 74751>>, <<74863, 74863>>, <<74869, 74879>>, <<75076, 77711>>, <<77811, 77823>>, <<78895, 82943>>,
    <<83527, 92159>>, <<92729, 92735>>, <<92767, 92767>>, <<92778, 92781>>, <<92863, 92863>>, <<92874, 92879>>,
    <<92910, 92911>>, <<92918, 92927>>, <<92998, 93007>>, <<93018, 93018>>, <<93026, 93026>>, <<93048, 93052>>,
    <<93072, 93759>>, <<93851, 93951>>, <<94027, 94030>>, <<94088, 94094>>, <<94112, 94175>>, <<94181, 94191>>,
    <<94194, 94207>>, <<100344, 100351>>, <<101590, 101631>>, <<101641, 110575>>, <<110580, 110580>>, <<110588, 110588>>,
    <<110591, 110591>>, <<110883, 110927>>, <<110931, 110947>>, <<110952, 110959>>, <<111356, 113663>>, <<113771, 113775>>,
    <<113789, 113791>>, <<113801, 113807>>, <<113818, 113819>>, <<113824, 118527>>, <<118574, 118575>>, <<118599, 118607>>,
    <<118724, 118783>>, <<119030, 119039>>, <<119079, 119080>>, <<119155, 119162>>, <<119275, 119295>>, <<119366, 119519>>,
    <<119540, 119551>>, <<119639, 119647>>, <<119673, 119807>>, <<119893, 119893>>, <<119965, 119965>>, <<119968, 119969>>,
    <<119971, 119972>>, <<119975, 119976>>, <<119981, 119981>>, <<119994, 119994>>, <<119996, 119996>>, <<120004, 120004>>,
    <<120070, 120070>>, <<120075, 120076>>, <<120085, 120085>>, <<120093, 120093>>, <<120122, 120122>>, <<120127, 120127>>,
    <<120133, 120133>>, <<120135, 120137>>, <<120145, 120145>>, <<120486, 120487>>, <<120780, 120781>>, <<121484, 121498>>,
    <<121504, 121504>>, <<121520, 122623>>, <<122655, 122879>>, <<122887, 122887>>, <<122905, 122906>>, <<122914, 122914>>,
    <<122917, 122917>>, <<122923, 123135>>, <<123181, 123183>>, <<123198, 123199>>, <<123210, 123213>>, <<123216, 123535>>,
    <<123567, 123583>>, <<123642, 123646>>, <<123648, 124895>>, <<124903, 124903>>, <<124908, 124908>>, <<124911, 124911>>,
    <<124927, 124927>>, <<125125, 125126>>, <<125143, 125183>>, <<125260, 125263>>, <<125274, 125277>>, <<125280, 126064>>,
    <<126133, 126208>>, <<126270, 126463>>, <<126468, 126468>>, <<126496, 126496>>, <<126499, 126499>>, <<126501, 126502>>,
    <<126504, 126504>>, <<126515, 126515>>, <<126520, 126520>>, <<126522, 126522>>, <<126524, 126529>>, <<126531, 126534>>,
    <<126536, 126536>>, <<126538, 126538>>, <<126540, 126540>>, <<126544, 126544>>, <<126547, 126547>>, <<126549, 126550>>,
    <<126552, 126552>>, <<126554, 126554>>, <<126556, 126556>>, <<126558, 126558>>, <<126560, 126560>>, <<126563, 126563>>,
    <<126565, 126566>>, <<126571, 126571>>, <<126579, 126579>>, <<126584, 126584>>, <<126589, 126589>>, <<126591, 126591>>,
    <<126602, 126602>>, <<126620, 126624>>, <<126628, 126628>>, <<126634, 126634>>, <<126652, 126703>>, <<126706, 126975>>,
    <<127020, 127023>>, <<127124, 127135>>, <<127151, 127152>>, <<127168, 127168>>, <<127184, 127184>>, <<127222, 127231>>,
    <<127406, 127461>>, <<127491, 127503>>, <<127548, 127551>>, <<127561, 127567>>, <<127570, 127583>>, <<127590, 127743>>,
    <<128728, 128732>>, <<128749, 128751>>, <<128765, 128767>>, <<128884, 128895>>, <<128985, 128991>>, <<129004, 129007>>,
    <<129009, 129023>>, <<129036, 129039>>, <<129096, 129103>>, <<129114, 129119>>, <<129160, 129167>>, <<129198, 129199>>,
    <<129202, 129279>>, <<129620, 129631>>, <<129646, 129647>>, <<129653, 129655>>, <<129661, 129663>>, <<129671, 129679>>,
    <<129709, 129711>>, <<129723, 129727>>, <<129734, 129743>>, <<129754, 129759>>, <<129768, 129775>>, <<129783, 129791>>,
    <<129939, 129939>>, <<129995, 130031>>, <<130042, 131071>>, <<173792, 173823>>, <<177977, 177983>>, <<178206, 178207>>,
    <<183970, 183983>>, <<191457, 194559>>, <<195102, 196607>>, <<201547, 917759>>, <<918000, 1114111>> >>

----------------------------------------------------------------------------
(* Characters and strings (Python str, re's character classes)             *)

The(S) == CHOOSE y \in S : TRUE

Min(a, b) == IF a < b THEN a ELSE b

MaxOf(S) == IF S = {} THEN 0 ELSE CHOOSE x \in S : \A y \in S : y <= x

MinOf(S) == CHOOSE x \in S : \A y \in S : x <= y

\* the elements of a set of numbers in increasing order
SortedSeq(S) ==
    [k \in 1..Cardinality(S) |-> CHOOSE x \in S : Cardinality({ y \in S : y < x }) = k - 1]

\* the text of a string: its characters in order
Txt(s) == [i \in 1..Len(s) |-> SubSeq(s, i, i)]

Ch(s, i) == s[i]

\* the characters U+0020 to U+005F, U+0061 to U+007E and U+00A0 to U+00FF in
\* the order of their code points
ASCII_LOW == " !\"#$%&'()*+,-./0123456789:;<=>?@ABCDEFGHIJKLMNOPQRSTUVWXYZ[\\]^_"
ASCII_HIGH == "abcdefghijklmnopqrstuvwxyz{|}~"
LATIN1 == " ¡¢£¤¥¦§¨©ª«¬­®¯°±²³´µ¶·¸¹º»¼½¾¿ÀÁÂÃÄÅÆÇÈÉÊËÌÍÎÏÐÑÒÓÔÕÖ×ØÙÚÛÜÝÞßàáâãäåæçèéêëìíîïðñòóôõö÷øùúûüýþÿ"

DIGITS == Txt("0123456789")
ASCII_LOWERCASE == Txt("abcdefghijklmnopqrstuvwxyz")
ASCII_UPPERCASE == Txt("ABCDEFGHIJKLMNOPQRSTUVWXYZ")
ASCII_LETTERS == ASCII_LOWERCASE \o ASCII_UPPERCASE
HEX_LOWER == Txt("0123456789abcdef")
HEX_UPPER == Txt("0123456789ABCDEF")

CharsOf(s) == { s[i] : i \in 1..Len(s) }

\* the first position of the character c in s
IndexOf(s, c) == CHOOSE i \in 1..Len(s) : s[i] = c /\ \A j \in 1..(i - 1) : s[j] # c

DigitChars == CharsOf(DIGITS)
HexChars == CharsOf(HEX_LOWER) \cup CharsOf(HEX_UPPER)

\* [0-9], and [0-9A-Fa-f], which is [a-f0-9] under re.IGNORECASE
IsDigit(c) == c \in DigitChars
IsHex(c) == c \in HexChars

\* the value of a digit, and of a hex digit of either case
DigitVal == [c \in DigitChars |-> IndexOf(DIGITS, c) - 1]
HexVal == [c \in HexChars |->
             IF c \in CharsOf(HEX_LOWER) THEN IndexOf(HEX_LOWER, c) - 1
             ELSE IndexOf(HEX_UPPER, c) - 1]


\* int(s) for a text of ASCII digits
RECURSIVE StrToInt(_)
StrToInt(s) ==
    IF s = << >> THEN 0
    ELSE 10 * StrToInt(SubSeq(s, 1, Len(s) - 1)) + DigitVal[s[Len(s)]]

\* str(n) for n >= 0
RECURSIVE IntToStr(_)
IntToStr(n) ==
    IF n < 10 THEN << DIGITS[n + 1] >>
    ELSE Append(IntToStr(n \div 10), DIGITS[(n % 10) + 1])

\* int(s, 16)
RECURSIVE HexToInt(_)
HexToInt(s) ==
    IF s = << >> THEN 0
    ELSE 16 * HexToInt(SubSeq(s, 1, Len(s) - 1)) + HexVal[s[Len(s)]]

\* '%x' % n
RECURSIVE IntToHex(_)
IntToHex(n) ==
    IF n < 16 THEN << HEX_LOWER[n + 1] >>
    ELSE Append(IntToHex(n \div 16), HEX_LOWER[(n % 16) + 1])

\* f'{n:0<w>x}'
ZeroPad(s, w) == [i \in 1..(w - Len(s)) |-> "0"] \o s

FormatHex(n, w) == ZeroPad(IntToHex(n), w)

\* ord(c) of the characters that are written as themselves
ORD ==
    [c \in CharsOf(Txt(ASCII_LOW)) \cup CharsOf(Txt(ASCII_HIGH)) \cup CharsOf(Txt(LATIN1))
            \cup {"\t", "\n", "\f", "\r"} |->
        CASE c = "\t" -> 9
          [] c = "\n" -> 10
          [] c = "\f" -> 12
          [] c = "\r" -> 13
          [] c \in CharsOf(Txt(LATIN1)) -> 159 + IndexOf(Txt(LATIN1), c)
          [] c \in CharsOf(Txt(ASCII_HIGH)) -> 96 + IndexOf(Txt(ASCII_HIGH), c)
          [] OTHER -> 31 + IndexOf(Txt(ASCII_LOW), c)]

CHR == [n \in { ORD[c] : c \in DOMAIN ORD } |-> CHOOSE c \in DOMAIN ORD : ORD[c] = n]

\* the name of the code point n
RECURSIVE CodePointName(_, _)
CodePointName(n, w) ==
    IF n < 16 /\ w <= 1 THEN HEX_UPPER[n + 1]
    ELSE CodePointName(n \div 16, w - 1) \o HEX_UPPER[(n % 16) + 1]

ord(c) == IF c \in DOMAIN ORD THEN ORD[c] ELSE HexToInt(Txt(SubSeq(c, 3, Len(c))))
chr(n) == IF n \in DOMAIN CHR THEN CHR[n] ELSE "U+" \o CodePointName(n, 4)

\* the text of a sequence of code points
Chars(codes) == [k \in 1..Len(codes) |-> chr(codes[k])]

InRanges(n, ranges) == \E k \in 1..Len(ranges) : ranges[k][1] <= n /\ n <= ranges[k][2]

\* the range of n
RangeOf(n, ranges) == ranges[CHOOSE k \in 1..Len(ranges) : ranges[k][1] <= n /\ n <= ranges[k][2]]

\* \w of the re module for a str pattern: the characters str.isalnum accepts
\* and "_"
WordChars == { c \in DOMAIN ORD : InRanges(ORD[c], WORD_RANGES) }
IsWord(c) == IF c \in DOMAIN ORD THEN c \in WordChars ELSE InRanges(ord(c), WORD_RANGES)

\* \d of the re module for a str pattern: the characters str.isdecimal
\* accepts, and the digit each stands for
isdecimal(c) == IF c \in DOMAIN ORD THEN c \in DigitChars ELSE InRanges(ord(c), DECIMAL_RANGES)
decimal(c) ==
    IF c \in DigitChars THEN DigitVal[c]
    ELSE (ord(c) - RangeOf(ord(c), DECIMAL_RANGES)[1]) % 10

\* str.isspace
SpaceChars == { c \in DOMAIN ORD : InRanges(ORD[c], SPACE_RANGES) }
isspace(c) == IF c \in DOMAIN ORD THEN c \in SpaceChars ELSE InRanges(ord(c), SPACE_RANGES)

\* the image of the code point n under a case mapping: its code points
CaseImage(n, ranges, special) ==
    IF \E k \in 1..Len(special) : special[k][1] = n
    THEN special[CHOOSE k \in 1..Len(special) : special[k][1] = n][2]
    ELSE IF \E k \in 1..Len(ranges) :
                ranges[k][1] <= n /\ n <= ranges[k][2] /\ (n - ranges[k][1]) % ranges[k][3] = 0
    THEN << n + ranges[CHOOSE k \in 1..Len(ranges) :
                          /\ ranges[k][1] <= n /\ n <= ranges[k][2]
                          /\ (n - ranges[k][1]) % ranges[k][3] = 0][4] >>
    ELSE << n >>

LowerMap == [c \in DOMAIN ORD |-> Chars(CaseImage(ORD[c], LOWER_RANGES, LOWER_SPECIAL))]
UpperMap == [c \in DOMAIN ORD |-> Chars(CaseImage(ORD[c], UPPER_RANGES, UPPER_SPECIAL))]

\* sep.join(parts): the parts are joined by halves, so that the evaluation
\* nests no deeper than the logarithm of their number
RECURSIVE Join(_, _)
Join(parts, sep) ==
    IF Len(parts) = 0 THEN << >>
    ELSE IF Len(parts) = 1 THEN parts[1]
    ELSE Join(SubSeq(parts, 1, Len(parts) \div 2), sep) \o sep
         \o Join(SubSeq(parts, (Len(parts) \div 2) + 1, Len(parts)), sep)

\* the capital sigma at s[i] is a final sigma: a cased character before it
\* and none after it, the case-ignorable characters passed over
final_sigma(s, i) ==
    The({ /\ near[1] # {}
          /\ InRanges(ord(s[MaxOf(near[1])]), CASED_RANGES)
          /\ near[2] # {} => ~InRanges(ord(s[MinOf(near[2])]), CASED_RANGES)
          : near \in {<< { j \in 1..(i - 1) : ~InRanges(ord(s[j]), CASE_IGNORABLE_RANGES) },
                         { j \in (i + 1)..Len(s) : ~InRanges(ord(s[j]), CASE_IGNORABLE_RANGES) } >>} })

\* the lower case of s[i]
lower_at(s, i) ==
    IF s[i] \in DOMAIN ORD THEN LowerMap[s[i]]
    ELSE IF s[i] = "U+03A3" THEN << IF final_sigma(s, i) THEN "U+03C2" ELSE "U+03C3" >>
    ELSE Chars(CaseImage(ord(s[i]), LOWER_RANGES, LOWER_SPECIAL))

upper_at(s, i) ==
    IF s[i] \in DOMAIN ORD THEN UpperMap[s[i]]
    ELSE Chars(CaseImage(ord(s[i]), UPPER_RANGES, UPPER_SPECIAL))

\* str.lower() and str.upper()
Lower(s) == Join([i \in 1..Len(s) |-> lower_at(s, i)], << >>)
Upper(s) == Join([i \in 1..Len(s) |-> upper_at(s, i)], << >>)

\* sub in s
Contains(s, sub) ==
    \E i \in 1..(Len(s) - Len(sub) + 1) : SubSeq(s, i, i + Len(sub) - 1) = sub

\* s.startswith(p)
StartsWith(s, p) == Len(s) >= Len(p) /\ SubSeq(s, 1, Len(p)) = p

\* s.split(sep) for a one-character sep, from the positions ps of sep in s
SplitAt(s, ps) ==
    [k \in 1..(Len(ps) + 1) |->
        SubSeq(s, IF k = 1 THEN 1 ELSE ps[k - 1] + 1,
                  IF k > Len(ps) THEN Len(s) ELSE ps[k] - 1)]

Split(s, sep) == SplitAt(s, SortedSeq({ i \in 1..Len(s) : s[i] = sep }))

----------------------------------------------------------------------------
(* Numbers.  A natural number of any size is the sequence of its digits to  *)
(* the base 2^15, the least significant first and the last one not 0;       *)
(* << >> is 0.  A Python int is the record [neg, mag] of its sign and its   *)
(* magnitude.  A Python float is an IEEE 754 binary64 value: a finite one   *)
(* is the record of its sign, an odd natural number man (<< >> for zero)    *)
(* and an exponent exp, the value being man * 2^exp; every operation is     *)
(* computed exactly and rounded once to the nearest float, ties to even.    *)

BASE == 2 ^ 15

Limb(a, i) == IF i >= 1 /\ i <= Len(a) THEN a[i] ELSE 0

\* a without its leading zero digits
Trim(a) == SubSeq(a, 1, MaxOf({ i \in 1..Len(a) : a[i] # 0 }))

\* the natural number n
RECURSIVE Big(_)
Big(n) == IF n = 0 THEN << >> ELSE << n % BASE >> \o Big(n \div BASE)

\* a natural number below BASE^2 as a number
Small(a) == Limb(a, 1) + BASE * Limb(a, 2)

\* -1, 0 or 1 as a < b, a = b or a > b
NatCmp(a, b) ==
    IF Len(a) # Len(b) THEN (IF Len(a) < Len(b) THEN -1 ELSE 1)
    ELSE IF a = b THEN 0
    ELSE The({ IF a[i] < b[i] THEN -1 ELSE 1
               : i \in {MaxOf({ i \in 1..Len(a) : a[i] # b[i] })} })

\* A loop that carries a value from each step to the next is written as a
\* recursion over the range lo..hi of its steps that halves the range, so
\* that the evaluation nests no deeper than the logarithm of the length.
\* Such a recursion gives [d |-> the digits the steps yield, c |-> what the
\* last step carries on], or the carried value alone
Mid(lo, hi) == (lo + hi) \div 2

Reverse(s) == [i \in 1..Len(s) |-> s[Len(s) + 1 - i]]

\* the digit and the carry of the sum s of a column
Carry(s) == [d |-> << s % BASE >>, c |-> s \div BASE]

\* the digits lo..hi of a + b, c being carried into them
RECURSIVE AddDigits(_, _, _, _, _)
AddDigits(a, b, lo, hi, c) ==
    IF lo > hi THEN [d |-> << >>, c |-> c]
    ELSE IF lo = hi THEN Carry(Limb(a, lo) + Limb(b, lo) + c)
    ELSE The({ The({ [d |-> low.d \o high.d, c |-> high.c]
                     : high \in {AddDigits(a, b, Mid(lo, hi) + 1, hi, low.c)} })
               : low \in {AddDigits(a, b, lo, Mid(lo, hi), c)} })

NatAdd(a, b) ==
    IF b = << >> THEN a
    ELSE IF a = << >> THEN b
    ELSE The({ IF s.c = 0 THEN s.d ELSE Append(s.d, s.c)
               : s \in {AddDigits(a, b, 1, IF Len(a) < Len(b) THEN Len(b) ELSE Len(a), 0)} })

\* the digit and the borrow of the difference d of a column
Borrow(d) == [d |-> << IF d < 0 THEN d + BASE ELSE d >>, c |-> IF d < 0 THEN 1 ELSE 0]

\* the digits lo..hi of a - b, c being borrowed from them
RECURSIVE SubDigits(_, _, _, _, _)
SubDigits(a, b, lo, hi, c) ==
    IF lo > hi THEN [d |-> << >>, c |-> c]
    ELSE IF lo = hi THEN Borrow(a[lo] - Limb(b, lo) - c)
    ELSE The({ The({ [d |-> low.d \o high.d, c |-> high.c]
                     : high \in {SubDigits(a, b, Mid(lo, hi) + 1, hi, low.c)} })
               : low \in {SubDigits(a, b, lo, Mid(lo, hi), c)} })

\* a - b, for a >= b
NatSub(a, b) == IF b = << >> THEN a ELSE Trim(SubDigits(a, b, 1, Len(a), 0).d)

\* a * k, for k < BASE
RECURSIVE MulSmallDigits(_, _, _, _, _)
MulSmallDigits(a, k, lo, hi, c) ==
    IF lo > hi THEN [d |-> << >>, c |-> c]
    ELSE IF lo = hi THEN Carry(a[lo] * k + c)
    ELSE The({ The({ [d |-> low.d \o high.d, c |-> high.c]
                     : high \in {MulSmallDigits(a, k, Mid(lo, hi) + 1, hi, low.c)} })
               : low \in {MulSmallDigits(a, k, lo, Mid(lo, hi), c)} })

NatMulSmall(a, k) ==
    IF k = 0 \/ a = << >> THEN << >>
    ELSE IF k = 1 THEN a
    ELSE The({ IF p.c = 0 THEN p.d ELSE Append(p.d, p.c)
               : p \in {MulSmallDigits(a, k, 1, Len(a), 0)} })

\* a * BASE^n
ShiftDigits(a, n) == IF a = << >> THEN << >> ELSE [i \in 1..n |-> 0] \o a

\* c and the products of a and the digits lo..hi of b
RECURSIVE AddProducts(_, _, _, _, _)
AddProducts(a, b, lo, hi, c) ==
    IF lo > hi THEN c
    ELSE IF lo = hi THEN NatAdd(c, ShiftDigits(NatMulSmall(a, b[lo]), lo - 1))
    ELSE The({ AddProducts(a, b, Mid(lo, hi) + 1, hi, low)
               : low \in {AddProducts(a, b, lo, Mid(lo, hi), c)} })

\* a * b: the sum of the products of the longer number and the digits of
\* the shorter
NatMul(a, b) ==
    IF Len(a) < Len(b) THEN AddProducts(b, a, 1, Len(a), << >>)
    ELSE AddProducts(a, b, 1, Len(b), << >>)

\* the quotient and the remainder (a number) of a by k, for 0 < k < BASE:
\* short division from the leading digit down
RECURSIVE DivSmallDigits(_, _, _, _, _)
DivSmallDigits(a, k, lo, hi, c) ==
    IF lo > hi THEN [d |-> << >>, c |-> c]
    ELSE IF lo = hi
         THEN [d |-> << (c * BASE + a[Len(a) + 1 - lo]) \div k >>,
               c |-> (c * BASE + a[Len(a) + 1 - lo]) % k]
    ELSE The({ The({ [d |-> low.d \o high.d, c |-> high.c]
                     : high \in {DivSmallDigits(a, k, Mid(lo, hi) + 1, hi, low.c)} })
               : low \in {DivSmallDigits(a, k, lo, Mid(lo, hi), c)} })

NatDivModSmall(a, k) ==
    The({ [q |-> Trim(Reverse(s.d)), r |-> s.c] : s \in {DivSmallDigits(a, k, 1, Len(a), 0)} })

\* the number of binary digits of the digit x > 0, and of a
BitsOfDigit(x) == CHOOSE k \in 1..15 : 2 ^ (k - 1) <= x /\ x < 2 ^ k
NatBits(a) == IF a = << >> THEN 0 ELSE 15 * (Len(a) - 1) + BitsOfDigit(a[Len(a)])

\* a * 2^k and a \div 2^k
NatShl(a, k) == ShiftDigits(NatMulSmall(a, 2 ^ (k % 15)), k \div 15)
NatShr(a, k) ==
    IF k \div 15 >= Len(a) THEN << >>
    ELSE NatDivModSmall(SubSeq(a, (k \div 15) + 1, Len(a)), 2 ^ (k % 15)).q

\* the number of zero binary digits at the end of a > 0
NatTrailingZeros(a) ==
    The({ 15 * (i - 1) + MaxOf({ k \in 0..14 : a[i] % (2 ^ k) = 0 })
          : i \in {MinOf({ i \in 1..Len(a) : a[i] # 0 })} })

\* the quotient digit of cur by b, counting down from an estimate that is
\* not too small
RECURSIVE QuotDigit(_, _, _)
QuotDigit(cur, b, q) ==
    IF NatCmp(NatMulSmall(b, q), cur) > 0 THEN QuotDigit(cur, b, q - 1) ELSE q

\* the estimate from the two leading digits of cur and the leading digit of
\* b, which is BASE / 2 at least: at most 2 too large
QuotEstimate(cur, b) ==
    Min(BASE - 1, (Limb(cur, Len(b) + 1) * BASE + Limb(cur, Len(b))) \div b[Len(b)])

\* one step of the long division by b: the next digit of the dividend is
\* brought down to the remainder rem
DivStep(digit, b, rem) ==
    The({ The({ [d |-> << q >>, c |-> NatSub(cur, NatMulSmall(b, q))]
                : q \in {IF NatCmp(cur, b) < 0 THEN 0 ELSE QuotDigit(cur, b, QuotEstimate(cur, b))} })
          : cur \in {Trim(<< digit >> \o rem)} })

\* the steps lo..hi of the long division of a by b, rem being the
\* remainder before them
RECURSIVE DivDigits(_, _, _, _, _)
DivDigits(a, b, lo, hi, rem) ==
    IF lo > hi THEN [d |-> << >>, c |-> rem]
    ELSE IF lo = hi THEN DivStep(a[Len(a) + 1 - lo], b, rem)
    ELSE The({ The({ [d |-> low.d \o high.d, c |-> high.c]
                     : high \in {DivDigits(a, b, Mid(lo, hi) + 1, hi, low.c)} })
               : low \in {DivDigits(a, b, lo, Mid(lo, hi), rem)} })

\* the quotient and the remainder of a by b > 0: long division, both
\* numbers shifted so that the leading digit of b is BASE / 2 at least
NatDivMod(a, b) ==
    IF Len(b) = 1
    THEN The({ [q |-> d.q, r |-> Big(d.r)] : d \in {NatDivModSmall(a, b[1])} })
    ELSE The({ The({ The({ [q |-> Trim(Reverse(d.d)), r |-> NatShr(d.c, s)]
                           : d \in {DivDigits(n[1], n[2], 1, Len(n[1]), << >>)} })
                     : n \in {<< NatShl(a, s), NatShl(b, s) >>} })
               : s \in {15 - BitsOfDigit(b[Len(b)])} })

\* a^k
RECURSIVE NatPow(_, _)
NatPow(a, k) ==
    IF k = 0 THEN Big(1)
    ELSE IF k % 2 = 1 THEN NatMul(NatPow(a, k - 1), a)
    ELSE The({ NatMul(h, h) : h \in {NatPow(a, k \div 2)} })

\* n zeros
Zeros(n) == [i \in 1..n |-> "0"]

\* s without its leading zeros, and without its trailing zeros
StripLeadingZeros(s) ==
    The({ IF nz = {} THEN << >> ELSE SubSeq(s, MinOf(nz), Len(s))
          : nz \in {{ i \in 1..Len(s) : s[i] # "0" }} })

StripTrailingZeros(s) ==
    The({ IF nz = {} THEN << >> ELSE SubSeq(s, 1, MaxOf(nz))
          : nz \in {{ i \in 1..Len(s) : s[i] # "0" }} })

\* the steps lo..hi of the conversion to decimal digits, four digits a
\* step from the last ones on, c being what is left to convert
RECURSIVE DecimalGroups(_, _, _)
DecimalGroups(lo, hi, c) ==
    IF lo > hi THEN [d |-> << >>, c |-> c]
    ELSE IF lo = hi
         THEN The({ [d |-> << ZeroPad(IntToStr(d.r), 4) >>, c |-> d.q]
                    : d \in {NatDivModSmall(c, 10 ^ 4)} })
    ELSE The({ The({ [d |-> low.d \o high.d, c |-> high.c]
                     : high \in {DecimalGroups(Mid(lo, hi) + 1, hi, low.c)} })
               : low \in {DecimalGroups(lo, Mid(lo, hi), c)} })

\* the decimal digits of a: 31 digits at most for every 100 binary digits
NatToDigits(a) ==
    IF Len(a) <= 2 THEN IntToStr(Small(a))
    ELSE StripLeadingZeros(Join(Reverse(
             DecimalGroups(1, ((NatBits(a) * 31) \div 400) + 1, a).d), << >>))

\* c and the groups lo..hi of four decimal digits of t
RECURSIVE AddGroups(_, _, _, _)
AddGroups(t, lo, hi, c) ==
    IF lo > hi THEN c
    ELSE IF lo = hi
         THEN NatAdd(NatMulSmall(c, 10 ^ 4), Big(StrToInt(SubSeq(t, (4 * lo) - 3, 4 * lo))))
    ELSE The({ AddGroups(t, Mid(lo, hi) + 1, hi, low) : low \in {AddGroups(t, lo, Mid(lo, hi), c)} })

\* the number of a text of decimal digits
NatFromDigits(s) ==
    The({ AddGroups(t, 1, Len(t) \div 4, << >>) : t \in {Zeros((4 - (Len(s) % 4)) % 4) \o s} })

\* a Python int
PyInt(neg, mag) == [neg |-> neg /\ mag # << >>, mag |-> mag]

\* the int n
IntOf(n) == IF n < 0 THEN PyInt(TRUE, Big(-n)) ELSE PyInt(FALSE, Big(n))

int_neg(x) == PyInt(~x.neg, x.mag)

int_add(x, y) ==
    IF x.neg = y.neg THEN PyInt(x.neg, NatAdd(x.mag, y.mag))
    ELSE IF NatCmp(x.mag, y.mag) >= 0 THEN PyInt(x.neg, NatSub(x.mag, y.mag))
    ELSE PyInt(y.neg, NatSub(y.mag, x.mag))

int_sub(x, y) == int_add(x, int_neg(y))

\* x < y
int_lt(x, y) ==
    IF x.neg # y.neg THEN x.neg
    ELSE IF x.neg THEN NatCmp(x.mag, y.mag) > 0
    ELSE NatCmp(x.mag, y.mag) < 0

\* str(x)
int_repr(x) == (IF x.neg THEN <<"-">> ELSE << >>) \o NatToDigits(x.mag)

\* a Python float
Float(neg, man, exp) == [cls |-> "finite", neg |-> neg, man |-> man, exp |-> exp]
Inf(neg) == [cls |-> "inf", neg |-> neg, man |-> << >>, exp |-> 0]
NaN == [cls |-> "nan", neg |-> FALSE, man |-> << >>, exp |-> 0]
Zero(neg) == Float(neg, << >>, 0)

\* the float m * 2^e, for m below 2^53 that needs no rounding
Exact(neg, m, e) ==
    IF m = << >> THEN Zero(neg)
    ELSE The({ Float(neg, NatShr(m, z), e + z) : z \in {NatTrailingZeros(m)} })

\* q or q + 1 as the remainder r of a division by b is below or above the
\* half of b, the even one of them when it is the half
HalfEven(q, r, b) ==
    The({ IF c > 0 \/ (c = 0 /\ Limb(q, 1) % 2 = 1) THEN NatAdd(q, Big(1)) ELSE q
          : c \in {NatCmp(NatShl(r, 1), b)} })

\* the exponent of the leading binary digit of num / den
LeadingExponent(num, den) ==
    The({ IF (IF g >= 0 THEN NatCmp(num, NatShl(den, g)) ELSE NatCmp(NatShl(num, -g), den)) >= 0
          THEN g ELSE g - 1
          : g \in {NatBits(num) - NatBits(den)} })

\* num / den * 2^qe rounded to a multiple of 2^qe
RoundAt(neg, num, den, k, qe) ==
    The({ The({ IF NatBits(m) + qe > 1024 THEN Inf(neg) ELSE Exact(neg, m, qe)
                : m \in {HalfEven(d.q, d.r, IF k >= 0 THEN den ELSE NatShl(den, -k))} })
          : d \in {NatDivMod(IF k >= 0 THEN NatShl(num, k) ELSE num,
                             IF k >= 0 THEN den ELSE NatShl(den, -k))} })

\* the float nearest to num / den * 2^sh, ties to even: 53 binary digits,
\* fewer below 2^-1022, infinity from 2^1024 on
RoundToFloat(neg, num, den, sh) ==
    IF num = << >> THEN Zero(neg)
    ELSE The({ The({ IF e > 1024 THEN Inf(neg)
                     ELSE IF e < -1076 THEN Zero(neg)
                     ELSE RoundAt(neg, num, den, sh - qe, qe)
                     : qe \in {IF e - 52 < -1074 THEN -1074 ELSE e - 52} })
               : e \in {LeadingExponent(num, den) + sh} })

float_neg(x) == IF x.cls = "nan" THEN x ELSE [x EXCEPT !.neg = ~x.neg]

IsZero(x) == x.cls = "finite" /\ x.man = << >>

\* x + y for finite x and y
finite_add(x, y) ==
    IF IsZero(x) /\ IsZero(y) THEN Zero(x.neg /\ y.neg)
    ELSE IF IsZero(x) THEN y
    ELSE IF IsZero(y) THEN x
    ELSE The({ The({ IF x.neg = y.neg THEN RoundToFloat(x.neg, NatAdd(m[1], m[2]), Big(1), e)
                     ELSE IF NatCmp(m[1], m[2]) = 0 THEN Zero(FALSE)
                     ELSE IF NatCmp(m[1], m[2]) > 0
                     THEN RoundToFloat(x.neg, NatSub(m[1], m[2]), Big(1), e)
                     ELSE RoundToFloat(y.neg, NatSub(m[2], m[1]), Big(1), e)
                     : m \in {<< NatShl(x.man, x.exp - e), NatShl(y.man, y.exp - e) >>} })
               : e \in {Min(x.exp, y.exp)} })

\* x + y
float_add(x, y) ==
    IF x.cls = "nan" \/ y.cls = "nan" THEN NaN
    ELSE IF x.cls = "inf" THEN (IF y.cls = "inf" /\ y.neg # x.neg THEN NaN ELSE x)
    ELSE IF y.cls = "inf" THEN y
    ELSE finite_add(x, y)

\* x - y
float_sub(x, y) == float_add(x, float_neg(y))

\* x * y
float_mul(x, y) ==
    IF x.cls = "nan" \/ y.cls = "nan" THEN NaN
    ELSE IF x.cls = "inf" \/ y.cls = "inf"
    THEN (IF IsZero(x) \/ IsZero(y) THEN NaN ELSE Inf(x.neg # y.neg))
    ELSE IF IsZero(x) \/ IsZero(y) THEN Zero(x.neg # y.neg)
    ELSE RoundToFloat(x.neg # y.neg, NatMul(x.man, y.man), Big(1), x.exp + y.exp)

\* x / y, for y that is not zero
float_truediv(x, y) ==
    IF x.cls = "nan" \/ y.cls = "nan" THEN NaN
    ELSE IF x.cls = "inf" THEN (IF y.cls = "inf" THEN NaN ELSE Inf(x.neg # y.neg))
    ELSE IF y.cls = "inf" \/ IsZero(x) THEN Zero(x.neg # y.neg)
    ELSE RoundToFloat(x.neg # y.neg, x.man, y.man, x.exp - y.exp)

\* -1, 0 or 1 as |x| < |y|, |x| = |y| or |x| > |y|, for finite x and y
\* that are not zero
MagnitudeCmp(x, y) ==
    The({ IF NatBits(x.man) + x.exp # NatBits(y.man) + y.exp
          THEN (IF NatBits(x.man) + x.exp < NatBits(y.man) + y.exp THEN -1 ELSE 1)
          ELSE NatCmp(NatShl(x.man, x.exp - e), NatShl(y.man, y.exp - e))
          : e \in {Min(x.exp, y.exp)} })

\* -1, 0 or 1 as x < y, x == y or x > y, for x and y that are no NaN
FloatCmp(x, y) ==
    IF IsZero(x) /\ IsZero(y) THEN 0
    ELSE IF IsZero(x) THEN (IF y.neg THEN 1 ELSE -1)
    ELSE IF IsZero(y) THEN (IF x.neg THEN -1 ELSE 1)
    ELSE IF x.neg # y.neg THEN (IF x.neg THEN -1 ELSE 1)
    ELSE IF x.cls = "inf" \/ y.cls = "inf"
    THEN (IF x.cls = y.cls THEN 0
          ELSE IF (x.cls = "inf") # x.neg THEN 1 ELSE -1)
    ELSE (IF x.neg THEN -1 ELSE 1) * MagnitudeCmp(x, y)

\* x < y and x > y
float_lt(x, y) == x.cls # "nan" /\ y.cls # "nan" /\ FloatCmp(x, y) < 0
float_gt(x, y) == x.cls # "nan" /\ y.cls # "nan" /\ FloatCmp(x, y) > 0

\* float(x) for an int x: the outcome is a float, or the OverflowError
\* of an int from 2^1024 on
Value(v) == [exc |-> "", v |-> v]
Raised(exc) == [exc |-> exc, v |-> 0]

int_to_float(x) ==
    The({ IF f.cls = "inf" THEN Raised("OverflowError") ELSE Value(f)
          : f \in {RoundToFloat(x.neg, x.mag, Big(1), 0)} })

\* int(x) for a float x: the fraction is cut off
float_to_int(x) ==
    IF x.cls = "nan" THEN Raised("ValueError")
    ELSE IF x.cls = "inf" THEN Raised("OverflowError")
    ELSE IF x.exp >= 0 THEN Value(PyInt(x.neg, NatShl(x.man, x.exp)))
    ELSE Value(PyInt(x.neg, NatShr(x.man, -x.exp)))

\* round(x, ndigits) for a float x and ndigits >= 0: the value of x written
\* out in decimal digits is rounded to ndigits digits after the point, the
\* half to the even digit, and the result is read as a float.  With
\* x = man / 2^k, the digits before the rounding position are those of
\* man * 10^ndigits / 2^k.
float_round(x, ndigits) ==
    IF x.cls # "finite" \/ x.exp >= 0 \/ ndigits >= -x.exp THEN x
    ELSE The({ RoundToFloat(x.neg,
                            HalfEven(NatShr(scaled, -x.exp),
                                     NatSub(scaled, NatShl(NatShr(scaled, -x.exp), -x.exp)),
                                     NatShl(Big(1), -x.exp)),
                            NatPow(Big(10), ndigits), 0)
               : scaled \in {NatMul(x.man, NatPow(Big(10), ndigits))} })

\* -1, 0 or 1 as a < b, a = b or a > b, for texts of as many digits
DigitsCmp(a, b) ==
    IF a = b THEN 0
    ELSE The({ IF DigitVal[a[i]] < DigitVal[b[i]] THEN -1 ELSE 1
               : i \in {MinOf({ i \in 1..Len(a) : a[i] # b[i] })} })

\* the digits s with the digits after the position p made 0
CutAfter(s, p) == SubSeq(s, 1, p) \o Zeros(Len(s) - p)

\* CutAfter(s, p) plus one unit of the position p; s begins with a zero
BumpAt(s, p) ==
    The({ SubSeq(s, 1, j - 1) \o << DIGITS[DigitVal[s[j]] + 2] >> \o Zeros(Len(s) - j)
          : j \in {MaxOf({ i \in 1..p : s[i] # "9" })} })

\* the value, the lower and the upper end of the numbers that round to the
\* float x > 0, all three times 2^(2 - E), 2^E being the distance from x to
\* the next float: the lower end is nearer when x is a power of two
RoundingRange(x) ==
    The({ The({ [v |-> v,
                 lo |-> NatSub(v, Big(IF NatBits(x.man) = 1 /\ x.exp + 1074 > 52 THEN 1 ELSE 2)),
                 hi |-> NatAdd(v, Big(2)),
                 closed |-> t > 0,
                 exp |-> x.exp - t - 2]
                : v \in {NatShl(x.man, t + 2)} })
          : t \in {Min(53 - NatBits(x.man), x.exp + 1074)} })

\* the number of decimal places k with which a number of b binary digits
\* before the point has 18 decimal digits or more before the point when it
\* is multiplied by 10^k: 30103 / 100000 is less than the logarithm of 2
DecimalShift(b) == MaxOf({0, 18 - (((b - 1) * 30103) \div (10 ^ 5))})

\* n * 10^k * 2^exp cut to a natural number, and whether that is exact
Whole(n, k, exp) ==
    The({ IF exp >= 0 THEN [n |-> NatShl(scaled, exp), exact |-> TRUE]
          ELSE The({ [n |-> q, exact |-> NatShl(q, -exp) = scaled]
                     : q \in {NatShr(scaled, -exp)} })
          : scaled \in {NatMul(n, NatPow(Big(10), k))} })

\* the least natural number in the range that begins at lo, and the
\* greatest in the range that ends at hi; the ends belong to a closed range
LeastIn(lo, closed) == IF closed /\ lo.exact THEN lo.n ELSE NatAdd(lo.n, Big(1))
GreatestIn(hi, closed) == IF closed \/ ~hi.exact THEN hi.n ELSE NatSub(hi.n, Big(1))

\* the first n with which the digits v cut or bumped at its n-th digit lie
\* in the range lo..hi, and then the nearer of the two candidates, the even
\* one when they are as near; the value is the digits v and, unless exact,
\* a fraction after them
RECURSIVE ShortestFrom(_, _, _, _, _, _)
ShortestFrom(v, lo, hi, exact, first, n) ==
    The({ The({ IF ok[1] /\ ok[2]
                THEN (IF ok[3] < 0 \/ (ok[3] = 0 /\ exact /\ DigitVal[v[first + n - 1]] % 2 = 0)
                      THEN c[1] ELSE c[2])
                ELSE IF ok[1] THEN c[1]
                ELSE IF ok[2] THEN c[2]
                ELSE ShortestFrom(v, lo, hi, exact, first, n + 1)
                : ok \in {<< DigitsCmp(lo, c[1]) <= 0,
                             DigitsCmp(c[2], hi) <= 0,
                             DigitsCmp(SubSeq(v, first + n, Len(v)),
                                       <<"5">> \o Zeros(Len(v) - (first + n))) >>} })
          : c \in {<< CutAfter(v, first + n - 1), BumpAt(v, first + n - 1) >>} })

\* repr(x) of the float 0.digits * 10^point, digits without leading or
\* trailing zeros: fixed notation for 1e-4 <= x < 1e16
format_float_short(digits, point) ==
    IF point > 16 \/ point < -3
    THEN << digits[1] >>
         \o (IF Len(digits) > 1 THEN <<".">> \o SubSeq(digits, 2, Len(digits)) ELSE << >>)
         \o <<"e">> \o (IF point - 1 < 0 THEN <<"-">> ELSE <<"+">>)
         \o ZeroPad(IntToStr(IF point - 1 < 0 THEN 1 - point ELSE point - 1), 2)
    ELSE IF point <= 0 THEN Txt("0.") \o Zeros(-point) \o digits
    ELSE IF point >= Len(digits) THEN digits \o Zeros(point - Len(digits)) \o Txt(".0")
    ELSE SubSeq(digits, 1, point) \o <<".">> \o SubSeq(digits, point + 1, Len(digits))

\* the shortest digits that read as the float x > 0, with the position of
\* the point: the value and the ends of its range are multiplied by 10^k,
\* which gives the value 18 digits or more before the point, more than the
\* 17 that tell any two floats apart, and the candidates are the natural
\* numbers in the range; a zero stands before the digits
ShortestDigits(x) ==
    The({ The({ The({ The({ The({ The({ [digits |-> StripTrailingZeros(StripLeadingZeros(s)),
                                         point |-> Len(StripLeadingZeros(s)) - k]
                                        : s \in {ShortestFrom(v, ZeroPad(d[2], Len(v)), ZeroPad(d[3], Len(v)), value.exact,
                                                              MinOf({ i \in 1..Len(v) : v[i] # "0" }), 1)} })
                                  : v \in {ZeroPad(d[1], Len(d[3]) + 1)} })
                            : d \in {<< NatToDigits(value.n),
                                        NatToDigits(LeastIn(Whole(r.lo, k, r.exp), r.closed)),
                                        NatToDigits(GreatestIn(Whole(r.hi, k, r.exp), r.closed)) >>} })
                      : value \in {Whole(r.v, k, r.exp)} })
                : k \in {DecimalShift(NatBits(r.v) + r.exp)} })
          : r \in {RoundingRange(x)} })

\* repr(x) and str(x)
float_repr(x) ==
    IF x.cls = "nan" THEN Txt("nan")
    ELSE IF x.cls = "inf" THEN (IF x.neg THEN Txt("-inf") ELSE Txt("inf"))
    ELSE (IF x.neg THEN <<"-">> ELSE << >>)
         \o (IF IsZero(x) THEN Txt("0.0")
             ELSE The({ format_float_short(s.digits, s.point) : s \in {ShortestDigits(x)} }))

\* the characters Py_ISSPACE accepts
BlankChars == {" ", "\t", "\n", "\r", "\f", "U+000B"}

\* _PyUnicode_TransformDecimalAndSpaceToASCII for one character
to_ascii(c) ==
    IF ord(c) < 127 THEN c
    ELSE IF isspace(c) THEN " "
    ELSE IF isdecimal(c) THEN DIGITS[decimal(c) + 1]
    ELSE "?"

\* s without the blanks at its ends
Strip(s) ==
    The({ IF solid = {} THEN << >> ELSE SubSeq(s, MinOf(solid), MaxOf(solid))
          : solid \in {{ i \in 1..Len(s) : s[i] \notin BlankChars }} })

\* the text int() and float() parse: the digits and blanks of every script
\* made ASCII, the blanks at the ends dropped
NumberText(s) == Strip([i \in 1..Len(s) |-> to_ascii(s[i])])

Unsigned(s) == IF s # << >> /\ s[1] \in {"-", "+"} THEN SubSeq(s, 2, Len(s)) ELSE s
Negative(s) == s # << >> /\ s[1] = "-"

\* digits grouped by single underscores, one digit at least
IsGroupedDigits(s) ==
    /\ s # << >>
    /\ \A i \in 1..Len(s) : IsDigit(s[i]) \/ s[i] = "_"
    /\ s[1] # "_" /\ s[Len(s)] # "_"
    /\ \A i \in 1..(Len(s) - 1) : ~(s[i] = "_" /\ s[i + 1] = "_")

Ungrouped(s) == SelectSeq(s, LAMBDA c : c # "_")

\* int(s) for a str s; sys.int_info.default_max_str_digits is 4300
long_from_string(s) ==
    The({ IF ~IsGroupedDigits(Unsigned(t)) \/ Len(Ungrouped(Unsigned(t))) > 4300
          THEN Raised("ValueError")
          ELSE Value(PyInt(Negative(t), NatFromDigits(Ungrouped(Unsigned(t)))))
          : t \in {NumberText(s)} })

\* the underscores of s stand between digits
UnderscoresGroupDigits(s) ==
    \A i \in 1..Len(s) :
        s[i] = "_" => /\ i > 1 /\ IsDigit(s[i - 1])
                      /\ i < Len(s) /\ IsDigit(s[i + 1])

\* the first position of one of the characters cs in s, or 0
FirstOf(s, cs) ==
    The({ IF at = {} THEN 0 ELSE MinOf(at) : at \in {{ i \in 1..Len(s) : s[i] \in cs }} })

\* s before the first of the characters cs, all of s when there is none
Before(s, cs) == The({ IF i = 0 THEN s ELSE SubSeq(s, 1, i - 1) : i \in {FirstOf(s, cs)} })

\* s from the first of the characters cs on, << >> when there is none
From(s, cs) == The({ IF i = 0 THEN << >> ELSE SubSeq(s, i, Len(s)) : i \in {FirstOf(s, cs)} })

\* the parts of a number text: sign, integer digits, fraction (with its
\* point) and exponent (with its letter), << >> for a part that is not there
NumberParts(p) ==
    [negative |-> Negative(p),
     int |-> Before(Before(Unsigned(p), {"e", "E"}), {"."}),
     frac |-> From(Before(Unsigned(p), {"e", "E"}), {"."}),
     exp |-> From(Unsigned(p), {"e", "E"})]

\* an exponent: the letter, a sign or none, digits
IsExponent(x) ==
    /\ Len(x) > 1
    /\ Unsigned(Tail(x)) # << >>
    /\ (\A c \in CharsOf(Unsigned(Tail(x))) : IsDigit(c))

\* the texts strtod reads to their end: digits with a point or none among
\* them, an exponent or none
IsFloatLiteral(n) ==
    /\ (\A c \in CharsOf(n.int) : IsDigit(c))
    /\ n.frac # << >> => (\A c \in CharsOf(Tail(n.frac)) : IsDigit(c))
    /\ n.int # << >> \/ Len(n.frac) > 1
    /\ n.exp # << >> => IsExponent(n.exp)

\* the value of an exponent part, kept within -MAX_EXPONENT..MAX_EXPONENT
MAX_EXPONENT == 10 ^ 5

ExponentOf(exp) ==
    IF exp = << >> THEN 0
    ELSE The({ (IF Negative(Tail(exp)) THEN -1 ELSE 1)
               * (IF Len(digits) > 5 THEN MAX_EXPONENT ELSE StrToInt(digits))
               : digits \in {StripLeadingZeros(Unsigned(Tail(exp)))} })

\* strtod for the digits of a float literal: digits * 10^exponent
ReadDecimal(negative, digits, exponent) ==
    IF digits = << >> THEN Zero(negative)
    ELSE IF Len(digits) + exponent > 400 THEN Inf(negative)
    ELSE IF Len(digits) + exponent < -400 THEN Zero(negative)
    ELSE IF exponent >= 0
    THEN RoundToFloat(negative, NatMul(NatFromDigits(digits), NatPow(Big(10), exponent)),
                      Big(1), 0)
    ELSE RoundToFloat(negative, NatFromDigits(digits), NatPow(Big(10), -exponent), 0)

\* the float of the parts of a float literal
ReadFloat(n) ==
    ReadDecimal(n.negative,
                StripLeadingZeros(n.int \o (IF n.frac = << >> THEN << >> ELSE Tail(n.frac))),
                ExponentOf(n.exp) - (IF n.frac = << >> THEN 0 ELSE Len(n.frac) - 1))

\* float(s) for a str s
float_from_string(s) ==
    The({ IF ~UnderscoresGroupDigits(t) THEN Raised("ValueError")
          ELSE The({ IF Lower(Unsigned(u)) \in {Txt("inf"), Txt("infinity")} THEN Value(Inf(Negative(u)))
                     ELSE IF Lower(Unsigned(u)) = Txt("nan") THEN Value(NaN)
                     ELSE IF IsFloatLiteral(NumberParts(u)) THEN Value(ReadFloat(NumberParts(u)))
                     ELSE Raised("ValueError")
                     : u \in {Ungrouped(t)} })
          : t \in {NumberText(s)} })
----------------------------------------------------------------------------
(* The random module                                                       *)

\* the k-th raw draw after the state rnd, k = 0 for the next one
RandRaw(rnd, k) == rnd.tape[((rnd.pos + k) % Len(rnd.tape)) + 1]

\* the state after k draws
Advance(rnd, k) == [rnd EXCEPT !.pos = @ + k]

\* random.randint(a, b) as the k-th draw: a <= result <= b
randint(a, b, rnd, k) == a + (RandRaw(rnd, k) % (b - a + 1))

\* random.choice(seq) on a sequence or string of length n, as a 1-based index
choice_index(n, rnd, k) == (RandRaw(rnd, k) % n) + 1

----------------------------------------------------------------------------
(* The ipaddress module, as far as the anonymizer uses it                  *)

\* ipaddress.IPv4Address(s) accepts s: four decimal octets, each of one to
\* three ASCII digits without a leading zero and at most 255
ValidOctet(o) ==
    /\ o # << >>
    /\ (\A c \in CharsOf(o) : IsDigit(c))
    /\ Len(o) <= 3
    /\ ~(o # <<"0">> /\ o[1] = "0")
    /\ StrToInt(o) <= 255

IsIPv4Address(s) ==
    The({ Len(octets) = 4 /\ \A i \in 1..4 : ValidOctet(octets[i])
          : octets \in {Split(s, ".")} })

\* ip.is_loopback (127.0.0.0/8) and ip.is_unspecified (0.0.0.0) of an IPv4Address
is_loopback(s) == Split(s, ".")[1] = Txt("127")
is_unspecified(s) == The({ \A i \in 1..4 : StrToInt(o[i]) = 0 : o \in {Split(s, ".")} })

ValidHextet(h) == Len(h) >= 1 /\ Len(h) <= 4 /\ (\A c \in CharsOf(h) : IsHex(c))

\* an address written with all eight groups
IPv6Full(parts) ==
    IF Len(parts) = 8 /\ \A i \in 1..8 : ValidHextet(parts[i])
    THEN [i \in 1..8 |-> HexToInt(parts[i])]
    ELSE <<>>

\* an address written with "::" at parts[k]: hi groups before it, lo after it
IPv6Groups(his, los) ==
    IF \/ 8 - (Len(his) + Len(los)) < 1
       \/ \E i \in 1..Len(his) : ~ValidHextet(his[i])
       \/ \E i \in 1..Len(los) : ~ValidHextet(los[i])
    THEN <<>>
    ELSE [i \in 1..8 |->
            IF i <= Len(his) THEN HexToInt(his[i])
            ELSE IF i > 8 - Len(los) THEN HexToInt(los[i - (8 - Len(los))])
            ELSE 0]

IPv6Compressed(parts, k) ==
    LET n == Len(parts)
        headEmpty == parts[1] = << >>
        tailEmpty == parts[n] = << >>
        hi == IF headEmpty THEN k - 2 ELSE k - 1
        lo == IF tailEmpty THEN n - k - 1 ELSE n - k
    IN  IF (headEmpty /\ hi # 0) \/ (tailEmpty /\ lo # 0) THEN <<>>
        ELSE IPv6Groups(SubSeq(parts, 1, hi), SubSeq(parts, n - lo + 1, n))

IPv6Parts(parts) ==
    LET n == Len(parts)
        skips == { i \in 2..(n - 1) : parts[i] = << >> }
    IN  IF n < 3 \/ n > 9 \/ Cardinality(skips) > 1 THEN <<>>
        ELSE IF skips = {} THEN IPv6Full(parts)
        ELSE IPv6Compressed(parts, CHOOSE i \in skips : TRUE)

\* ipaddress.IPv6Address(s) for text without an embedded dotted quad: the
\* eight groups as integers, or <<>> where the library raises ValueError
IPv6Address(s) == IF Contains(s, <<".">>) THEN <<>> ELSE The({ IPv6Parts(it)
                                                               : it \in {Split(s, ":")} })

\* ip.exploded.split(':'): eight groups of four lowercase hex digits
exploded_parts(groups) == [i \in 1..8 |-> FormatHex(groups[i], 4)]

\* the length of the run of zero groups that starts at group i
ZeroRunAt(groups, i) ==
    IF groups[i] # 0 THEN 0
    ELSE CHOOSE l \in 1..(9 - i) :
            /\ \A j \in i..(i + l - 1) : groups[j] = 0
            /\ (i + l > 8 \/ groups[i + l] # 0)

\* the start of the longest run of zero groups, the first among equals, or 0
BestZeroRun(groups) ==
    The({ IF \A i \in 1..8 : run[i] = 0 THEN 0
          ELSE CHOOSE i \in 1..8 :
                  /\ run[i] > 0
                  /\ \A j \in 1..8 : run[i] > run[j] \/ (run[i] = run[j] /\ i <= j)
          : run \in {[i \in 1..8 |-> IF i = 1 \/ groups[i - 1] # 0 THEN ZeroRunAt(groups, i) ELSE 0]} })

\* the groups with the run of len zero groups at start written as "::"
CompressHextets(hextets, start, len) ==
    Join(SubSeq(hextets, 1, start - 1)
         \o (IF start = 1 THEN << << >> >> ELSE <<>>) \o << << >> >>
         \o (IF start + len > 8 THEN << << >> >> ELSE <<>>)
         \o SubSeq(hextets, start + len, 8), <<":">>)

\* str(ipaddress.IPv6Address(...)): lowercase groups without leading zeros,
\* the best run of two or more zero groups written as "::"
IPv6ToStr(groups) ==
    The({ IF start > 0 /\ ZeroRunAt(groups, start) > 1
          THEN CompressHextets([i \in 1..8 |-> IntToHex(groups[i])], start,
                               ZeroRunAt(groups, start))
          ELSE Join([i \in 1..8 |-> IntToHex(groups[i])], <<":">>)
          : start \in {BestZeroRun(groups)} })

----------------------------------------------------------------------------
(* The regex patterns: the length of the match starting at position i of   *)
(* text, or 0 when the pattern does not match there                        *)

WordAt(text, p) == p >= 1 /\ p <= Len(text) /\ IsWord(text[p])

\* \b between the characters p - 1 and p
WordBoundary(text, p) == WordAt(text, p - 1) # WordAt(text, p)

\* [0-9A-Fa-f] and [a-f0-9] under re.IGNORECASE take ASCII characters only;
\* \d takes the decimal digits of every script
HexAt(text, p) == p >= 1 /\ p <= Len(text) /\ IsHex(text[p])
DigitAt(text, p) == p >= 1 /\ p <= Len(text) /\ isdecimal(text[p])
CharAt(text, p, cs) == p >= 1 /\ p <= Len(text) /\ text[p] \in cs

\* MAC_ADDRESS_PATTERN = \b(?:[0-9A-Fa-f]{2}[:-]){5}(?:[0-9A-Fa-f]{2})\b
MacMatchLen(text, i) ==
    IF /\ WordBoundary(text, i)
       /\ \A g \in 0..5 : HexAt(text, i + 3 * g) /\ HexAt(text, i + 3 * g + 1)
       /\ \A g \in 0..4 : CharAt(text, i + 3 * g + 2, {":", "-"})
       /\ WordBoundary(text, i + 17)
    THEN 17 ELSE 0

\* \d{1,3}\. at p, greedy: the number of characters taken, 0 for no match
OctetDotLen(text, p) ==
    The({ IF t = 0 THEN 0 ELSE t + 1
          : t \in {MaxOf({ t \in 1..3 : (\A j \in 0..(t - 1) : DigitAt(text, p + j))
                                        /\ CharAt(text, p + t, {"."}) })} })

\* \d{1,3}\b at p, greedy
OctetEndLen(text, p) ==
    MaxOf({ t \in 1..3 : (\A j \in 0..(t - 1) : DigitAt(text, p + j))
                         /\ WordBoundary(text, p + t) })

\* the position after k groups "\d{1,3}\." from p, or 0
RECURSIVE AfterOctets(_, _, _)
AfterOctets(text, p, k) ==
    IF k = 0 THEN p
    ELSE The({ IF l = 0 THEN 0 ELSE AfterOctets(text, p + l, k - 1)
               : l \in {OctetDotLen(text, p)} })

\* IPV4_PATTERN = \b(?:\d{1,3}\.){3}\d{1,3}\b
Ipv4MatchLen(text, i) ==
    IF ~(WordBoundary(text, i) /\ DigitAt(text, i)) THEN 0
    ELSE The({ IF q = 0 THEN 0
               ELSE The({ IF d = 0 THEN 0 ELSE (q - i) + d : d \in {OctetEndLen(text, q)} })
               : q \in {AfterOctets(text, i, 3)} })

\* [a-f0-9]{1,4}: at p (IGNORECASE)
HextetColonLen(text, p) ==
    The({ IF t = 0 THEN 0 ELSE t + 1
          : t \in {MaxOf({ t \in 1..4 : (\A j \in 0..(t - 1) : HexAt(text, p + j))
                                        /\ CharAt(text, p + t, {":"}) })} })

\* [a-f0-9]{1,4}\b at p, greedy
HextetEndLen(text, p) ==
    MaxOf({ t \in 1..4 : (\A j \in 0..(t - 1) : HexAt(text, p + j))
                         /\ WordBoundary(text, p + t) })

\* the positions after each of the first groups "[a-f0-9]{1,4}:" from p, at most k
RECURSIVE HextetEnds(_, _, _)
HextetEnds(text, p, k) ==
    IF k = 0 THEN <<>>
    ELSE The({ IF l = 0 THEN <<>> ELSE <<p + l>> \o HextetEnds(text, p + l, k - 1)
               : l \in {HextetColonLen(text, p)} })

\* the ends of the matches with 2..7 leading groups, by number of groups
Ipv6MatchEnds(text, ends) ==
    { ends[k] + HextetEndLen(text, ends[k]) :
        k \in { n \in 2..Len(ends) : HextetEndLen(text, ends[n]) > 0 } }

\* IPV6_PATTERN = \b(?:[a-f0-9]{1,4}:){2,7}[a-f0-9]{1,4}\b, re.IGNORECASE:
\* the greedy {2,7} gives back groups until the last group and \b match
Ipv6MatchLen(text, i) ==
    IF ~(WordBoundary(text, i) /\ HexAt(text, i)) THEN 0
    ELSE The({ IF e = {} THEN 0 ELSE MaxOf(e) - i
               : e \in {Ipv6MatchEnds(text, HextetEnds(text, i, 7))} })

----------------------------------------------------------------------------
(* Global state and mappings                                               *)

WITTY_SSIDS == << Txt("Tell my WiFi love her"),
                  Txt("Pretty Fly for a Wi-Fi"),
                  Txt("The LAN Before Time"),
                  Txt("Searching..."),
                  Txt("Get off my LAN") >>

EmptyMap == [s \in {} |-> << >>]

\* REPLACEMENTS_MAP[k] = v
Put(map, k, v) == [x \in (DOMAIN map) \cup {k} |-> IF x = k THEN v ELSE map[x]]

\* the result of a function that reads and writes the store and draws
Result(out, map, rnd) == [out |-> out, map |-> map, rnd |-> rnd]

\* return the value new for original after REPLACEMENTS_MAP[original] = new,
\* having made k draws
Store(original, new, map, rnd, k) == Result(new, Put(map, original, new), Advance(rnd, k))

\* ''.join(random.choice(population) for _ in range(k)), also
\* ''.join(random.choices(population, k=k)): the draws i..k-1
RECURSIVE random_chars(_, _, _, _)
random_chars(population, k, rnd, i) ==
    IF i >= k THEN << >>
    ELSE << population[choice_index(Len(population), rnd, i)] >>
         \o random_chars(population, k, rnd, i + 1)

SerialDigits == 12

\* FAKE_SERIAL_NUMBER = 'JW' + twelve random digits, drawn at import
make_fake_serial_number(rnd) == Txt("JW") \o random_chars(DIGITS, SerialDigits, rnd, 0)

----------------------------------------------------------------------------
(* Anonymization core functions                                            *)

\* parts[:n]
Take(parts, n) == SubSeq(parts, 1, Min(n, Len(parts)))

\* get_or_create_mac_replacement without the store: every call draws anew
get_or_create_mac_replacement_unstored(original_mac, map, rnd) ==
    LET separator == original_mac[3]
        parts == Split(original_mac, separator)
        new_parts == Take(parts, 3) \o << FormatHex(randint(0, 255, rnd, 0), 2),
                                          FormatHex(randint(0, 255, rnd, 1), 2),
                                          FormatHex(randint(0, 255, rnd, 2), 2) >>
    IN  Result(Upper(Join(new_parts, << separator >>)), map, Advance(rnd, 3))

get_or_create_mac_replacement(original_mac, map, rnd) ==
    IF original_mac \in DOMAIN map THEN Result(map[original_mac], map, rnd)
    ELSE LET separator == original_mac[3]
             parts == Split(original_mac, separator)
             new_parts == Take(parts, 3) \o << FormatHex(randint(0, 255, rnd, 0), 2),
                                               FormatHex(randint(0, 255, rnd, 1), 2),
                                               FormatHex(randint(0, 255, rnd, 2), 2) >>
             new_mac == Upper(Join(new_parts, << separator >>))
         IN  Store(original_mac, new_mac, map, rnd, 3)

\* ".".join(map(str, new_octets))
JoinOctets(new_octets) == Join([i \in 1..Len(new_octets) |-> IntToStr(new_octets[i])], <<".">>)

\* [int(o) for o in ip_str.split('.')]
ParseOctets(ip_str) ==
    The({ [i \in 1..Len(parts) |-> StrToInt(parts[i])] : parts \in {Split(ip_str, ".")} })

\* new_ipv4 with the last octet always drawn from 2..254
new_ipv4_random_last(ip_str, octets, map, rnd) ==
    IF octets[1] = 192 /\ octets[2] = 168
    THEN Store(ip_str, JoinOctets(Take(octets, 3) \o <<randint(2, 254, rnd, 0)>>),
               map, rnd, 1)
    ELSE Store(ip_str, JoinOctets(<< 10, randint(0, 255, rnd, 0),
                                     randint(0, 255, rnd, 1),
                                     randint(2, 254, rnd, 2) >>),
               map, rnd, 3)

\* the replacement of a new address with the octets given
new_ipv4(ip_str, octets, map, rnd) ==
    IF octets[1] = 192 /\ octets[2] = 168
    THEN IF 1 < octets[4] /\ octets[4] < 255
         THEN Store(ip_str, JoinOctets(Take(octets, 3) \o <<randint(2, 254, rnd, 0)>>),
                    map, rnd, 1)
         ELSE Store(ip_str, ip_str, map, rnd, 0)
    ELSE IF octets[4] \in {0, 1, 255}
         THEN Store(ip_str, JoinOctets(<< 10, randint(0, 255, rnd, 0),
                                          randint(0, 255, rnd, 1), octets[4] >>),
                    map, rnd, 2)
         ELSE Store(ip_str, JoinOctets(<< 10, randint(0, 255, rnd, 0),
                                          randint(0, 255, rnd, 1),
                                          randint(2, 254, rnd, 2) >>),
                    map, rnd, 3)

get_or_create_ipv4_replacement(ip_str, map, rnd) ==
    IF ip_str \in DOMAIN map THEN Result(map[ip_str], map, rnd)
    ELSE The({ new_ipv4(ip_str, octets, map, rnd) : octets \in {ParseOctets(ip_str)} })

\* the groups of parts[1:] that are replaced by a draw
Ipv6Drawn(parts) == { j \in 2..Len(parts) : parts[j] \notin {Txt("0000"), Txt("0001")} }

\* ipv6_new_parts keeping only the first group and the groups '0000'
ipv6_new_parts_zero_only(parts, rnd) ==
    [i \in 1..Len(parts) |->
        IF i = 1 \/ parts[i] = Txt("0000") THEN parts[i]
        ELSE FormatHex(randint(0, 65535, rnd, i - 2), 4)]

\* new_parts: the first group and the groups '0000' and '0001' kept, every
\* other group drawn, in order
ipv6_new_parts(parts, rnd) ==
    [i \in 1..Len(parts) |->
        IF i \in Ipv6Drawn(parts)
        THEN FormatHex(randint(0, 65535, rnd,
                               Cardinality({ j \in Ipv6Drawn(parts) : j < i })), 4)
        ELSE parts[i]]

get_or_create_ipv6_replacement(ip_str, map, rnd) ==
    IF ip_str \in DOMAIN map THEN Result(map[ip_str], map, rnd)
    ELSE The({ Store(ip_str,
                     IPv6ToStr(IPv6Address(Join(ipv6_new_parts(parts, rnd), <<":">>))),
                     map, rnd, Cardinality(Ipv6Drawn(parts)))
               : parts \in {exploded_parts(IPv6Address(ip_str))} })

\* get_or_create_ssid_replacement without the lookup: every call chooses
\* and stores anew
get_or_create_ssid_replacement_overwriting(original_ssid, map, rnd) ==
    Store(original_ssid, WITTY_SSIDS[choice_index(Len(WITTY_SSIDS), rnd, 0)],
          map, rnd, 1)

get_or_create_ssid_replacement(original_ssid, map, rnd) ==
    IF original_ssid \in DOMAIN map THEN Result(map[original_ssid], map, rnd)
    ELSE Store(original_ssid, WITTY_SSIDS[choice_index(Len(WITTY_SSIDS), rnd, 0)],
               map, rnd, 1)

----------------------------------------------------------------------------
(* Regex substitution callbacks                                            *)

sub_mac_match(m, map, rnd) == get_or_create_mac_replacement(m, map, rnd)

\* sub_ipv4_match without the validation of line 102
sub_ipv4_match_unvalidated(ip_str, map, rnd) ==
    IF is_loopback(ip_str) \/ StartsWith(ip_str, Txt("255."))
    THEN Result(ip_str, map, rnd)
    ELSE get_or_create_ipv4_replacement(ip_str, map, rnd)

\* sub_ipv4_match without the test of line 103
sub_ipv4_match_unexempt(ip_str, map, rnd) ==
    IF ~IsIPv4Address(ip_str) THEN Result(ip_str, map, rnd)
    ELSE get_or_create_ipv4_replacement(ip_str, map, rnd)

\* an IPV4_PATTERN match holds digits and dots only, so ip_address() accepts
\* it exactly when IPv4Address does: never with a digit beyond ASCII
sub_ipv4_match(ip_str, map, rnd) ==
    IF ~IsIPv4Address(ip_str) THEN Result(ip_str, map, rnd)
    ELSE IF is_loopback(ip_str) \/ is_unspecified(ip_str) \/ StartsWith(ip_str, Txt("255."))
    THEN Result(ip_str, map, rnd)
    ELSE get_or_create_ipv4_replacement(ip_str, map, rnd)

sub_ipv6_match(ip_str, map, rnd) ==
    IF IPv6Address(ip_str) = <<>> THEN Result(ip_str, map, rnd)
    ELSE get_or_create_ipv6_replacement(ip_str, map, rnd)

MatchLen(pattern, text, i) ==
    CASE pattern = "MAC"  -> MacMatchLen(text, i)
      [] pattern = "IPV4" -> Ipv4MatchLen(text, i)
      [] pattern = "IPV6" -> Ipv6MatchLen(text, i)

Callback(pattern, m, map, rnd) ==
    CASE pattern = "MAC"  -> sub_mac_match(m, map, rnd)
      [] pattern = "IPV4" -> sub_ipv4_match(m, map, rnd)
      [] pattern = "IPV6" -> sub_ipv6_match(m, map, rnd)

\* the start of the leftmost match of pattern in text[i..], or 0
FirstMatch(pattern, text, i) ==
    The({ IF starts = {} THEN 0 ELSE CHOOSE x \in starts : \A y \in starts : x <= y
          : starts \in {{ j \in i..Len(text) : MatchLen(pattern, text, j) > 0 }} })

\* pattern.sub(callback, text): the leftmost non-overlapping matches, each
\* replaced by its callback's result, scanning the original text
RECURSIVE SubFrom(_, _, _, _, _)
SubFrom(pattern, text, i, map, rnd) ==
    The({ IF j = 0 THEN Result(SubSeq(text, i, Len(text)), map, rnd)
          ELSE The({ The({ The({ Result(SubSeq(text, i, j - 1) \o r.out \o rest.out, rest.map, rest.rnd)
                                 : rest \in {SubFrom(pattern, text, j + l, r.map, r.rnd)} })
                           : r \in {Callback(pattern, SubSeq(text, j, j + l - 1), map, rnd)} })
                     : l \in {MatchLen(pattern, text, j)} })
          : j \in {FirstMatch(pattern, text, i)} })

PatternSub(pattern, text, map, rnd) == SubFrom(pattern, text, 1, map, rnd)
----------------------------------------------------------------------------
(* Main anonymization logic                                                *)

Str(s) == [t |-> "str", v |-> s]
Num(s) == [t |-> "num", v |-> s]
Bool(s) == [t |-> "bool", v |-> s]
Null == [t |-> "null", v |-> Txt("null")]
Obj(items) == [t |-> "obj", items |-> items]
Arr(elems) == [t |-> "arr", elems |-> elems]
Item(k, n) == [k |-> k, n |-> n]

PasswordLength == 12

\* RuleFor with the password rule tested before the exclusions
RuleFor_password_first(key_lower, value) ==
    IF value.t # "str" \/ value.v = << >> THEN "passthrough"
    ELSE IF Contains(key_lower, Txt("password")) \/ Contains(key_lower, Txt("passphrase"))
    THEN "password"
    ELSE IF Contains(key_lower, Txt("version")) \/ Contains(key_lower, Txt("ssid_reference"))
    THEN "excluded"
    ELSE IF Contains(key_lower, Txt("prefix")) /\ Contains(value.v, <<":">>) THEN "prefix"
    ELSE IF key_lower = Txt("serial_number") THEN "serial_number"
    ELSE IF key_lower = Txt("ssid") THEN "ssid"
    ELSE IF key_lower = Txt("bssid") THEN "bssid"
    ELSE "content"

\* the rule of anonymize_value that decides (key, value): the conditions of
\* lines 125 to 143 in their order
RuleFor(key_lower, value) ==
    IF value.t # "str" \/ value.v = << >> THEN "passthrough"
    ELSE IF Contains(key_lower, Txt("version")) \/ Contains(key_lower, Txt("ssid_reference"))
    THEN "excluded"
    ELSE IF Contains(key_lower, Txt("prefix")) /\ Contains(value.v, <<":">>) THEN "prefix"
    ELSE IF key_lower = Txt("serial_number") THEN "serial_number"
    ELSE IF Contains(key_lower, Txt("password")) \/ Contains(key_lower, Txt("passphrase"))
    THEN "password"
    ELSE IF key_lower = Txt("ssid") THEN "ssid"
    ELSE IF key_lower = Txt("bssid") THEN "bssid"
    ELSE "content"

\* RuleOf comparing the key as written
RuleOf_case_sensitive(key, value) == RuleFor(key, value)

RuleOf(key, value) ==
    IF value.t # "str" THEN "passthrough" ELSE The({ RuleFor(k, value) : k \in {Lower(key)} })

\* the string result r of a rule as the JSON string it is
AsStr(r) == Result(Str(r.out), r.map, r.rnd)

\* serial_number_rule generating a serial number at every call
serial_number_rule_fresh(fake, map, rnd) ==
    Result(Str(make_fake_serial_number(rnd)), map, Advance(rnd, SerialDigits))

\* lines 136 and 137
serial_number_rule(fake, map, rnd) == Result(Str(fake), map, rnd)

\* password_rule memoized in the store like the other rules
password_rule_memoized(value, map, rnd) ==
    IF value.v \in DOMAIN map THEN Result(Str(map[value.v]), map, rnd)
    ELSE AsStr(Store(value.v,
                     random_chars(ASCII_LETTERS \o DIGITS, PasswordLength, rnd, 0),
                     map, rnd, PasswordLength))

\* lines 138 and 139
password_rule(value, map, rnd) ==
    Result(Str(random_chars(ASCII_LETTERS \o DIGITS, PasswordLength, rnd, 0)), map,
           Advance(rnd, PasswordLength))

\* lines 147 to 151: MAC, then IPv4, then IPv6, each over the previous output
content_scan(text, map, rnd) ==
    The({ The({ PatternSub("IPV6", v4.out, v4.map, v4.rnd)
                : v4 \in {PatternSub("IPV4", m.out, m.map, m.rnd)} })
          : m \in {PatternSub("MAC", text, map, rnd)} })

apply_rule(rule, value, map, rnd, fake) ==
    CASE rule \in {"passthrough", "excluded", "prefix"} -> Result(value, map, rnd)
      [] rule = "serial_number" -> serial_number_rule(fake, map, rnd)
      [] rule = "password" -> password_rule(value, map, rnd)
      [] rule = "ssid" -> The({ AsStr(it)
                                : it \in {get_or_create_ssid_replacement(value.v, map, rnd)} })
      [] rule = "bssid" -> The({ AsStr(it) : it \in {PatternSub("MAC", value.v, map, rnd)} })
      [] rule = "content" -> The({ AsStr(it) : it \in {content_scan(value.v, map, rnd)} })

anonymize_value(key, value, map, rnd, fake) ==
    The({ apply_rule(rule, value, map, rnd, fake) : rule \in {RuleOf(key, value)} })

RECURSIVE anonymize_data(_, _, _, _)
RECURSIVE walk_items(_, _, _, _, _)
RECURSIVE walk_elems(_, _, _, _, _)

\* walk_items leaving out the keys whose value is null
walk_items_dropping(items, i, map, rnd, fake) ==
    IF i > Len(items) THEN Result(<<>>, map, rnd)
    ELSE The({ The({ The({ Result((IF val.out = Null THEN <<>> ELSE <<Item(items[i].k, val.out)>>)
                                  \o rest.out, rest.map, rest.rnd)
                           : rest \in {walk_items(items, i + 1, val.map, val.rnd, fake)} })
                     : val \in {anonymize_value(items[i].k, child.out, child.map, child.rnd, fake)} })
               : child \in {anonymize_data(items[i].n, map, rnd, fake)} })

\* {k: anonymize_value(k, anonymize_data(v)) for k, v in data.items()}
walk_items(items, i, map, rnd, fake) ==
    IF i > Len(items) THEN Result(<<>>, map, rnd)
    ELSE The({ The({ The({ Result(<<Item(items[i].k, val.out)>> \o rest.out, rest.map, rest.rnd)
                           : rest \in {walk_items(items, i + 1, val.map, val.rnd, fake)} })
                     : val \in {anonymize_value(items[i].k, child.out, child.map, child.rnd, fake)} })
               : child \in {anonymize_data(items[i].n, map, rnd, fake)} })

\* [anonymize_data(item) for item in data]
walk_elems(elems, i, map, rnd, fake) ==
    IF i > Len(elems) THEN Result(<<>>, map, rnd)
    ELSE The({ The({ Result(<<child.out>> \o rest.out, rest.map, rest.rnd)
                     : rest \in {walk_elems(elems, i + 1, child.map, child.rnd, fake)} })
               : child \in {anonymize_data(elems[i], map, rnd, fake)} })

anonymize_data(data, map, rnd, fake) ==
    IF data.t = "obj"
    THEN The({ Result(Obj(r.out), r.map, r.rnd)
               : r \in {walk_items(data.items, 1, map, rnd, fake)} })
    ELSE IF data.t = "arr"
    THEN The({ Result(Arr(r.out), r.map, r.rnd)
               : r \in {walk_elems(data.elems, 1, map, rnd, fake)} })
    ELSE Result(data, map, rnd)

----------------------------------------------------------------------------
(* The driver anonymize_file and the command line main.  The file system   *)
(* is a function from paths to entries: no entry, a directory, a file      *)
(* whose text is the JSON document doc, a file whose text is no JSON       *)
(* document (malformed, or cut short by a failed write), or a file whose   *)
(* bytes are no UTF-8 text.  In a document a number is Num(text), text     *)
(* being what json.dump writes for it.  A path is a relative path, its     *)
(* names joined by "/", none of them empty, "." or "..", and << >> is the   *)
(* working directory.                                                      *)

Absent == [t |-> "absent"]
Dir == [t |-> "dir"]
Malformed == [t |-> "text"]
Partial == [t |-> "partial"]
Undecodable == [t |-> "bytes"]
Json(doc) == [t |-> "json", doc |-> doc]

\* the value None, which is no text
NONE == <<"<None>">>

\* not path
Falsy(path) == path \in {<< >>, NONE}

\* the directory of a path, << >> for the working directory
Parent(path) ==
    The({ Join(Take(parts, Len(parts) - 1), <<"/">>) : parts \in {Split(path, "/")} })

Entry(fs, path) == IF path \in DOMAIN fs THEN fs[path] ELSE Absent

\* what open() meets at a path: nothing ("absent", FileNotFoundError), a
\* regular file on the way to it ("notdir", NotADirectoryError), a
\* directory ("dir", IsADirectoryError) or a regular file ("file")
RECURSIVE Reach(_, _)
Reach(path, fs) ==
    IF path = << >> THEN "dir"
    ELSE The({ IF up = "absent" THEN "absent"
               ELSE IF up # "dir" THEN "notdir"
               ELSE IF Entry(fs, path).t \in {"absent", "dir"} THEN Entry(fs, path).t
               ELSE "file"
               : up \in {Reach(Parent(path), fs)} })

\* the directory of the path is there
ParentExists(path, fs) == Reach(Parent(path), fs) = "dir"

\* the characters U+0020 to U+007E that ESCAPE_ASCII of json.encoder does
\* not match: all but the quote and the backslash
PlainChars == ((CharsOf(Txt(ASCII_LOW)) \cup CharsOf(Txt(ASCII_HIGH))) \ {"\"", "\\"}) \cup {"U+0060"}

\* '\\u{0:04x}'.format(n)
escape_unit(n) == Txt("\\u") \o FormatHex(n, 4)

\* the replacement of a character that ESCAPE_ASCII matches (ensure_ascii):
\* a short escape, \uxxxx, or the two surrogates of a code point from
\* U+10000 on
escape_char(c) ==
    CASE c = "\"" -> Txt("\\\"")
      [] c = "\\" -> Txt("\\\\")
      [] c = "\n" -> Txt("\\n")
      [] c = "\r" -> Txt("\\r")
      [] c = "\t" -> Txt("\\t")
      [] c = "\f" -> Txt("\\f")
      [] c = "U+0008" -> Txt("\\b")
      [] OTHER -> The({ IF n < 2 ^ 16 THEN escape_unit(n)
                        ELSE escape_unit(55296 + (((n - 2 ^ 16) \div 2 ^ 10) % 2 ^ 10))
                             \o escape_unit(56320 + ((n - 2 ^ 16) % 2 ^ 10))
                        : n \in {ord(c)} })

\* the escaped characters lo..hi of s; a run without a match stays as it is
RECURSIVE escape_range(_, _, _)
escape_range(s, lo, hi) ==
    IF lo > hi THEN << >>
    ELSE IF \A i \in lo..hi : s[i] \in PlainChars THEN SubSeq(s, lo, hi)
    ELSE IF lo = hi THEN escape_char(s[lo])
    ELSE escape_range(s, lo, (lo + hi) \div 2) \o escape_range(s, ((lo + hi) \div 2) + 1, hi)

\* json.encoder.encode_basestring_ascii(s)
encode_basestring_ascii(s) == <<"\"">> \o escape_range(s, 1, Len(s)) \o <<"\"">>

\* '\n' + ' ' * (4 * level)
newline_indent(level) == <<"\n">> \o [i \in 1..(4 * level) |-> " "]

\* json.dumps(o, indent=4), o at the nesting depth level
RECURSIVE json_dumps(_, _)
json_dumps(o, level) ==
    CASE o.t = "str" -> encode_basestring_ascii(o.v)
      [] o.t = "obj" ->
             IF o.items = << >> THEN Txt("{}")
             ELSE <<"{">> \o newline_indent(level + 1)
                  \o Join([i \in 1..Len(o.items) |->
                              encode_basestring_ascii(o.items[i].k) \o Txt(": ")
                              \o json_dumps(o.items[i].n, level + 1)],
                          <<",">> \o newline_indent(level + 1))
                  \o newline_indent(level) \o <<"}">>
      [] o.t = "arr" ->
             IF o.elems = << >> THEN Txt("[]")
             ELSE <<"[">> \o newline_indent(level + 1)
                  \o Join([i \in 1..Len(o.elems) |-> json_dumps(o.elems[i], level + 1)],
                          <<",">> \o newline_indent(level + 1))
                  \o newline_indent(level) \o <<"]">>
      [] OTHER -> o.v

\* the number texts the scanner of json.load reads to their end:
\* -?(0|[1-9][0-9]*)(\.[0-9]+)?([eE][-+]?[0-9]+)?
IsJsonNumber(p) ==
    The({ /\ ~StartsWith(p, <<"+">>)
          /\ n.int # << >> /\ (\A c \in CharsOf(n.int) : IsDigit(c))
          /\ (n.int = <<"0">> \/ n.int[1] # "0")
          /\ (n.frac # << >> => Len(n.frac) > 1 /\ (\A c \in CharsOf(Tail(n.frac)) : IsDigit(c)))
          /\ (n.exp # << >> => IsExponent(n.exp))
          : n \in {NumberParts(p)} })

\* what json.dump writes for a float: float.__repr__, and the names of the
\* values that are no numbers of JSON
float_json(x) ==
    IF x.cls = "nan" THEN Txt("NaN")
    ELSE IF x.cls = "inf" THEN (IF x.neg THEN Txt("-Infinity") ELSE Txt("Infinity"))
    ELSE float_repr(x)

\* what json.dump writes for the number json.load reads from the text p: an
\* int for digits alone, else a float
number_text(p) ==
    The({ IF n.frac = << >> /\ n.exp = << >>
          THEN int_repr(PyInt(n.negative, NatFromDigits(n.int)))
          ELSE float_json(ReadFloat(n))
          : n \in {NumberParts(p)} })

\* the file that holds the first characters text of the document data and
\* no more, as json.load reads it: a proper prefix of the text of a number
\* can be a number, of any other document it is no document
cut_short(data, text) ==
    IF data.t = "num" /\ text \in {Txt("NaN"), Txt("Infinity"), Txt("-Infinity")} THEN Json(Num(text))
    ELSE IF data.t = "num" /\ IsJsonNumber(text) THEN Json(Num(number_text(text)))
    ELSE Partial

\* what one run of anonymize_file did: the messages printed in order, the
\* path each message names (<< >> for none), the file system and the store
\* after it
Outcome(messages, paths, fs, map) ==
    [messages |-> messages, paths |-> paths, fs |-> fs, map |-> map]

\* fs with the entry e at path
SetEntry(fs, path, e) == [p \in (DOMAIN fs) \cup {path} |-> IF p = path THEN e ELSE fs[p]]

\* the device takes any number of bytes
UNLIMITED == -1

\* _CHUNK_SIZE of io.TextIOWrapper: shorter texts stay in the buffer of the
\* file object until it is closed
CHUNK_SIZE == 8192

\* lines 179 and 180 and the end of the with block, the file being open
\* and truncated: json.dump writes text to the file object, line 180 prints,
\* the block closes the file.  The device takes io.accepted bytes and
\* refuses the rest with an OSError, which reaches the program when the
\* file is closed, after line 180, or inside json.dump (io.in_dump), which
\* only a text of CHUNK_SIZE or more can bring about, the buffer size of
\* the file system deciding.
write_text(output_file, data, text, fs, map, io) ==
    IF io.accepted = UNLIMITED \/ Len(text) <= io.accepted
    THEN Outcome(<<"written">>, <<output_file>>, SetEntry(fs, output_file, Json(data)), map)
    ELSE IF io.in_dump /\ Len(text) >= CHUNK_SIZE
    THEN Outcome(<<"unexpected">>, << << >> >>,
                 SetEntry(fs, output_file, cut_short(data, SubSeq(text, 1, io.accepted))), map)
    ELSE Outcome(<<"written", "unexpected">>, <<output_file, << >> >>,
                 SetEntry(fs, output_file, cut_short(data, SubSeq(text, 1, io.accepted))), map)

\* lines 178 to 180: open(output_file, 'w') creates or truncates the file;
\* its FileNotFoundError is reported with the name of the input (line 183)
write_output(input_file, output_file, data, fs, map, io) ==
    IF Reach(Parent(output_file), fs) = "absent"
    THEN Outcome(<<"not_found">>, <<input_file>>, fs, map)
    ELSE IF Reach(output_file, fs) \in {"notdir", "dir"}
    THEN Outcome(<<"unexpected">>, <<output_file>>, fs, map)
    ELSE The({ write_text(output_file, data, text, fs, map, io)
               : text \in {json_dumps(data, 0)} })

anonymize_file(input_file, output_file, fs, map, rnd, fake, io) ==
    IF Falsy(input_file) \/ Falsy(output_file)
    THEN Outcome(<<"usage">>, << << >> >>, fs, map)
    ELSE IF Reach(input_file, fs) = "absent"
    THEN Outcome(<<"not_found">>, <<input_file>>, fs, map)
    ELSE IF Reach(input_file, fs) \in {"notdir", "dir"}
    THEN Outcome(<<"unexpected">>, <<input_file>>, fs, map)
    ELSE IF fs[input_file].t = "bytes"
    THEN Outcome(<<"unexpected">>, << << >> >>, fs, map)
    ELSE IF fs[input_file].t # "json"
    THEN Outcome(<<"decode_error">>, <<input_file>>, fs, map)
    ELSE The({ write_output(input_file, output_file, r.out, fs, r.map, io)
               : r \in {anonymize_data(fs[input_file].doc, map, rnd, fake)} })

\* argparse's _negative_number_matcher, ^-\d+$|^-\d*\.\d+$: \d takes the
\* decimal digits of every script and $ also matches before a line feed
\* that ends the argument
IsNegativeNumber(a) ==
    /\ StartsWith(a, <<"-">>)
    /\ The({ /\ Len(parts) \in {1, 2}
             /\ \A i \in 1..Len(parts) : (\A c \in CharsOf(parts[i]) : isdecimal(c))
             /\ parts[Len(parts)] # << >>
             : parts \in {Split(SubSeq(a, 2, IF a[Len(a)] = "\n" THEN Len(a) - 1 ELSE Len(a)), ".")} })

\* how argparse takes one argument of the command line that stands before
\* any "--": a positional ("A"), the help option ("H": -h, --help and its
\* abbreviations), the help option with a value it does not take ("E") or
\* an option the parser does not have ("U").  What follows -h, after a "="
\* that stands next to it, is read as further short options: with nothing
\* but h it is the help option again, everything else is a value -h does
\* not take
ArgClass(a) ==
    IF a = << >> \/ a[1] # "-" THEN "A"
    ELSE IF a \in {Txt("-h"), Txt("--help")} THEN "H"
    ELSE IF Len(a) = 1 THEN "A"
    ELSE IF Contains(a, <<"=">>) /\ Split(a, "=")[1] = Txt("--help") THEN "E"
    ELSE IF a[2] = "-" /\ StartsWith(Txt("--help"), Split(a, "=")[1])
    THEN (IF Contains(a, <<"=">>) THEN "E" ELSE "H")
    ELSE IF a[2] # "-" /\ SubSeq(a, 1, 2) = Txt("-h")
    THEN The({ IF rest # << >> /\ (\A c \in CharsOf(rest) : c = "h") THEN "H" ELSE "E"
               : rest \in {SubSeq(a, IF a[3] = "=" THEN 4 ELSE 3, Len(a))} })
    ELSE IF IsNegativeNumber(a) \/ Contains(a, <<" ">>) THEN "A"
    ELSE "U"

Namespace(input_file, output_file) ==
    [kind |-> "args", input_file |-> input_file, output_file |-> output_file]
ParserExit(kind) == [kind |-> kind, input_file |-> NONE, output_file |-> NONE]

\* a value after "--" that is "--" itself is dropped from the positional
ValueOf(a) == IF a = Txt("--") THEN NONE ELSE a

\* the positionals input_file and output_file (nargs='?') from the
\* arguments pre before the first "--" and post after it, none of them an
\* option
Positionals(pre, post, dashed) ==
    IF ~dashed
    THEN (IF Len(pre) = 1 THEN Namespace(pre[1], NONE)
          ELSE IF Len(pre) = 2 THEN Namespace(pre[1], pre[2])
          ELSE ParserExit("error"))
    ELSE IF Len(pre) = 0
    THEN (IF Len(post) = 1 THEN Namespace(post[1], NONE)
          ELSE IF Len(post) = 2 THEN Namespace(post[1], ValueOf(post[2]))
          ELSE ParserExit("error"))
    ELSE IF Len(pre) = 1
    THEN (IF Len(post) = 0 THEN Namespace(pre[1], NONE)
          ELSE IF Len(post) = 1 THEN Namespace(pre[1], ValueOf(post[1]))
          ELSE ParserExit("error"))
    ELSE IF Len(pre) = 2 /\ Len(post) = 0 THEN Namespace(pre[1], pre[2])
    ELSE ParserExit("error")

\* the options among pre in their order: the first help option prints the
\* help and ends the process, unless a help option with a value stands
\* before it; an option the parser does not have is an error at the end
Options(pre, post, dashed) ==
    The({ IF i > 0 THEN ParserExit(IF ArgClass(pre[i]) = "H" THEN "help" ELSE "error")
          ELSE IF \E j \in 1..Len(pre) : ArgClass(pre[j]) = "U" THEN ParserExit("error")
          ELSE Positionals(pre, post, dashed)
          : i \in {FirstOf([i \in 1..Len(pre) |-> ArgClass(pre[i])], {"H", "E"})} })

\* parser.parse_args() of lines 191 to 194 on the arguments argv
parse_args(argv) ==
    The({ IF k = 0 THEN Options(argv, << >>, FALSE)
          ELSE Options(SubSeq(argv, 1, k - 1), SubSeq(argv, k + 1, Len(argv)), TRUE)
          : k \in {FirstOf(argv, {Txt("--")})} })

\* the command line to the end of the process: the help ends it with
\* status 0 and an error of the parser with status 2, both before
\* anonymize_file is called; main returns after anonymize_file, so the
\* process ends with status 0
main(argv, fs, map, rnd, fake, io) ==
    The({ IF args.kind = "help"
          THEN [exit |-> 0, args |-> args, run |-> Outcome(<<"help">>, << << >> >>, fs, map)]
          ELSE IF args.kind = "error"
          THEN [exit |-> 2, args |-> args, run |-> Outcome(<<"argparse">>, << << >> >>, fs, map)]
          ELSE [exit |-> 0, args |-> args,
                run |-> anonymize_file(args.input_file, args.output_file, fs, map, rnd,
                                       fake, io)]
          : args \in {parse_args(argv)} })
----------------------------------------------------------------------------
(* parse_docsis_data (src/src/sagemcom2mqtt/app.py).  The device tree is a  *)
(* JSON node as json.load builds it.  A number is the node Num(text) with   *)
(* the text json.dumps writes for it: digits for an int, float.__repr__     *)
(* for a float, NaN, Infinity and -Infinity.  An exception leaving the      *)
(* function is the outcome Raises(exception).                               *)

EmptyObj == Obj(<< >>)
EmptyArr == Arr(<< >>)

\* a number is a float, or else an int
IsFloat(x) == "cls" \in DOMAIN x

\* the number a node Num(text) holds
NumValue(text) ==
    IF text = Txt("NaN") THEN NaN
    ELSE IF Unsigned(text) = Txt("Infinity") THEN Inf(Negative(text))
    ELSE The({ IF n.frac = << >> /\ n.exp = << >>
               THEN PyInt(n.negative, NatFromDigits(n.int))
               ELSE ReadFloat(n)
               : n \in {NumberParts(text)} })

\* the node of a number
NumNode(x) == Num(IF IsFloat(x) THEN float_json(x) ELSE int_repr(x))

\* round(x, ndigits) for ndigits >= 0: an int stays the int it is
round(x, ndigits) == IF IsFloat(x) THEN float_round(x, ndigits) ELSE x

\* sum(p) for a list p of ints, and for a list of floats that is not
\* empty: the items are added from the left to 0, which is 0.0 for floats
RECURSIVE int_sum(_)
int_sum(p) == IF p = << >> THEN IntOf(0) ELSE int_add(int_sum(SubSeq(p, 1, Len(p) - 1)), p[Len(p)])

RECURSIVE float_sum(_)
float_sum(p) == IF p = << >> THEN Zero(FALSE) ELSE float_add(float_sum(SubSeq(p, 1, Len(p) - 1)), p[Len(p)])

\* min(p) and max(p) for a list p of floats that is not empty: the first
\* item, replaced by every later item that is less, or greater
RECURSIVE float_min(_)
float_min(p) ==
    IF Len(p) = 1 THEN p[1]
    ELSE The({ IF float_lt(p[Len(p)], least) THEN p[Len(p)] ELSE least
               : least \in {float_min(SubSeq(p, 1, Len(p) - 1))} })

RECURSIVE float_max(_)
float_max(p) ==
    IF Len(p) = 1 THEN p[1]
    ELSE The({ IF float_gt(p[Len(p)], greatest) THEN p[Len(p)] ELSE greatest
               : greatest \in {float_max(SubSeq(p, 1, Len(p) - 1))} })

\* bool(node)
Truthy(n) ==
    CASE n.t = "null" -> FALSE
      [] n.t = "bool" -> n.v = Txt("true")
      [] n.t = "str" -> n.v # << >>
      [] n.t = "num" -> The({ IF IsFloat(x) THEN ~IsZero(x) ELSE x.mag # << >>
                              : x \in {NumValue(n.v)} })
      [] n.t = "obj" -> n.items # << >>
      [] n.t = "arr" -> n.elems # << >>

IsDict(n) == n.t = "obj"

\* key in d, for a dict d
HasKey(d, key) == \E i \in 1..Len(d.items) : d.items[i].k = key

\* d.get(key, default), for a dict d
Get(d, key, default) ==
    IF HasKey(d, key)
    THEN d.items[CHOOSE i \in 1..Len(d.items) :
                    /\ d.items[i].k = key
                    /\ \A j \in (i + 1)..Len(d.items) : d.items[j].k # key].n
    ELSE default

\* the nodes a for loop can run over, and what it yields
Iterable(n) == n.t \in {"arr", "obj", "str"}
Elements(n) ==
    CASE n.t = "arr" -> n.elems
      [] n.t = "obj" -> [i \in 1..Len(n.items) |-> Str(n.items[i].k)]
      [] n.t = "str" -> [i \in 1..Len(n.v) |-> Str(<< n.v[i] >>)]

\* key in ch, for an iterable ch
In(key, ch) ==
    CASE ch.t = "obj" -> HasKey(ch, key)
      [] ch.t = "str" -> Contains(ch.v, key)
      [] ch.t = "arr" -> \E i \in 1..Len(ch.elems) : ch.elems[i] = Str(key)

\* float(node) and int(node): the outcome is a value or an exception
to_float(n) ==
    CASE n.t = "str" -> float_from_string(n.v)
      [] n.t = "num" -> The({ IF IsFloat(x) THEN Value(x) ELSE int_to_float(x)
                              : x \in {NumValue(n.v)} })
      [] n.t = "bool" -> Value(IF n.v = Txt("true") THEN Float(FALSE, Big(1), 0) ELSE Zero(FALSE))
      [] OTHER -> Raised("TypeError")

to_int(n) ==
    CASE n.t = "str" -> long_from_string(n.v)
      [] n.t = "num" -> The({ IF IsFloat(x) THEN float_to_int(x) ELSE Value(x)
                              : x \in {NumValue(n.v)} })
      [] n.t = "bool" -> Value(IntOf(IF n.v = Txt("true") THEN 1 ELSE 0))
      [] OTHER -> Raised("TypeError")

Convert(kind, n) == IF kind = "float" THEN to_float(n) ELSE to_int(n)

\* one step of the comprehension
\*   [kind(ch[key]) for ch in channels if key in ch and ch.get(key)]:
\* the values the element ch adds to the list (lines 74-78)
channel_value(ch, key, kind) ==
    IF ~Iterable(ch) THEN Raised("TypeError")
    ELSE IF ~In(key, ch) THEN Value(<< >>)
    ELSE IF ~IsDict(ch) THEN Raised("AttributeError")
    ELSE IF ~Truthy(Get(ch, key, Null)) THEN Value(<< >>)
    ELSE The({ IF r.exc # "" THEN r ELSE Value(<< r.v >>)
               : r \in {Convert(kind, Get(ch, key, Null))} })

RECURSIVE collect_values(_, _, _)
collect_values(elems, key, kind) ==
    IF elems = << >> THEN Value(<< >>)
    ELSE The({ IF r.exc # "" THEN r
               ELSE The({ IF rest.exc # "" THEN rest ELSE Value(r.v \o rest.v)
                          : rest \in {collect_values(Tail(elems), key, kind)} })
               : r \in {channel_value(Head(elems), key, kind)} })

\* the whole comprehension over the node channels (lines 74-78)
channel_values(channels, key, kind) ==
    IF ~Iterable(channels) THEN Raised("TypeError")
    ELSE collect_values(Elements(channels), key, kind)

\* the inner loop of lines 67-70 over the addresses of one interface; wan
\* is wan_ipv4_address before the loop, the value is the one after it
RECURSIVE scan_addresses(_, _)
scan_addresses(addresses, wan) ==
    IF addresses = << >> THEN Value(wan)
    ELSE IF ~IsDict(Head(addresses)) THEN Raised("AttributeError")
    ELSE IF Get(Head(addresses), Txt("alias"), Null) = Str(Txt("IP_DATA_ADDRESS"))
         THEN Value(Get(Head(addresses), Txt("ip_address"), Null))
    ELSE scan_addresses(Tail(addresses), wan)

\* the outer loop of lines 65-72 over the interfaces
RECURSIVE scan_interfaces(_, _)
scan_interfaces(interfaces, wan) ==
    IF interfaces = << >> THEN Value(wan)
    ELSE IF ~IsDict(Head(interfaces)) THEN Raised("AttributeError")
    ELSE IF ~Iterable(Get(Head(interfaces), Txt("i_pv4_addresses"), EmptyArr))
         THEN Raised("TypeError")
    ELSE The({ IF r.exc # "" \/ Truthy(r.v) THEN r
               ELSE scan_interfaces(Tail(interfaces), r.v)
               : r \in {scan_addresses(Elements(Get(Head(interfaces), Txt("i_pv4_addresses"), EmptyArr)),
                                       wan)} })

\* lines 62-72: the WAN IPv4 address of the device tree
wan_ipv4_address(device) ==
    IF ~IsDict(Get(device, Txt("IP"), EmptyObj)) THEN Raised("AttributeError")
    ELSE IF ~Iterable(Get(Get(device, Txt("IP"), EmptyObj), Txt("interfaces"), EmptyArr))
         THEN Raised("TypeError")
    ELSE scan_interfaces(Elements(Get(Get(device, Txt("IP"), EmptyObj), Txt("interfaces"),
                                      EmptyArr)), Null)

\* int(x or 0) and round(float(x or 0.0), 2) of lines 106-108
int_or_zero(x) ==
    IF ~Truthy(x) THEN Value(NumNode(IntOf(0)))
    ELSE The({ IF r.exc # "" THEN r ELSE Value(NumNode(r.v)) : r \in {to_int(x)} })

float_or_zero(x) ==
    IF ~Truthy(x) THEN Value(NumNode(Zero(FALSE)))
    ELSE The({ IF r.exc # "" THEN r ELSE Value(NumNode(round(r.v, 2))) : r \in {to_float(x)} })

\* the three entries of mqtt_data['system'], each a value or an exception
cpu_usage(process_status) ==
    IF ~IsDict(process_status) THEN Raised("AttributeError")
    ELSE int_or_zero(Get(process_status, Txt("cpu_usage"), Null))

load_average_1m(process_status) ==
    IF ~IsDict(Get(process_status, Txt("load_average"), EmptyObj)) THEN Raised("AttributeError")
    ELSE float_or_zero(Get(Get(process_status, Txt("load_average"), EmptyObj), Txt("load1"),
                           Null))

free_memory_percentage(memory_status) ==
    IF ~IsDict(memory_status) THEN Raised("AttributeError")
    ELSE int_or_zero(Get(memory_status, Txt("free_memory_percentage"), Null))

\* the entries of mqtt_data['system'] from their outcomes, the first
\* exception among them leaving the function
system_entries(cpu, load, memory) ==
    IF cpu.exc # "" THEN cpu
    ELSE IF load.exc # "" THEN load
    ELSE IF memory.exc # "" THEN memory
    ELSE Value(Obj(<< Item(Txt("cpu_usage"), cpu.v),
                      Item(Txt("load_average_1m"), load.v),
                      Item(Txt("free_memory_percentage"), memory.v) >>))

\* lines 102-109: mqtt_data['system']
system_metrics(device_info_data) ==
    IF ~IsDict(device_info_data) THEN Raised("AttributeError")
    ELSE The({ The({ IF cpu_usage(process_status).exc # "" THEN cpu_usage(process_status)
                     ELSE IF load_average_1m(process_status).exc # ""
                          THEN load_average_1m(process_status)
                     ELSE system_entries(cpu_usage(process_status), load_average_1m(process_status),
                                         free_memory_percentage(memory_status))
                     : memory_status \in {Get(device_info_data, Txt("memory_status"), EmptyObj)} })
               : process_status \in {Get(device_info_data, Txt("process_status"), EmptyObj)} })

\* round(sum(p) / len(p), d) if p else 0, and the same for min and max
avg_or_zero(p, d) ==
    IF p = << >> THEN NumNode(IntOf(0))
    ELSE NumNode(round(float_truediv(float_sum(p), int_to_float(IntOf(Len(p))).v), d))
min_or_zero(p, d) == IF p = << >> THEN NumNode(IntOf(0)) ELSE NumNode(round(float_min(p), d))
max_or_zero(p, d) == IF p = << >> THEN NumNode(IntOf(0)) ELSE NumNode(round(float_max(p), d))

\* lines 111-118: device_metadata
METADATA_KEYS == << Txt("serial_number"), Txt("manufacturer"), Txt("model_number"),
                    Txt("mac_address"), Txt("hardware_version"), Txt("software_version") >>

device_metadata(device_info_data) ==
    Obj([i \in 1..Len(METADATA_KEYS) |->
            Item(METADATA_KEYS[i], Get(device_info_data, METADATA_KEYS[i], Null))])

\* what parse_docsis_data gives: (None, None), a pair, or an exception
NonePair == [kind |-> "none"]
Raises(exc) == [kind |-> "raise", exc |-> exc]
Pair(mqtt_data, metadata) ==
    [kind |-> "pair", mqtt_data |-> mqtt_data, device_metadata |-> metadata]

\* lines 81-99: mqtt_data from the lists of lines 74-78
mqtt_data(cable_modem, downstream_channels, upstream_channels, wan, ds_power, us_power, ds_snr, correctable, uncorrectable, system) ==
    Obj(<< Item(Txt("status"), Get(cable_modem, Txt("status"), Str(Txt("UNKNOWN")))),
           Item(Txt("ipv4_address"), wan),
           Item(Txt("downstream"), Obj(<<
               Item(Txt("power_avg_dbmv"), avg_or_zero(ds_power, 1)),
               Item(Txt("power_min_dbmv"), min_or_zero(ds_power, 1)),
               Item(Txt("power_max_dbmv"), max_or_zero(ds_power, 1)),
               Item(Txt("snr_avg_db"), avg_or_zero(ds_snr, 2)),
               Item(Txt("channels"), Num(IntToStr(Len(Elements(downstream_channels))))),
               Item(Txt("correctable_sum"), NumNode(int_sum(correctable))),
               Item(Txt("uncorrectable_sum"), NumNode(int_sum(uncorrectable))) >>)),
           Item(Txt("upstream"), Obj(<<
               Item(Txt("power_avg_dbmv"), avg_or_zero(us_power, 1)),
               Item(Txt("power_min_dbmv"), min_or_zero(us_power, 1)),
               Item(Txt("power_max_dbmv"), max_or_zero(us_power, 1)),
               Item(Txt("channels"), Num(IntToStr(Len(Elements(upstream_channels))))) >>)),
           Item(Txt("system"), system) >>)

\* lines 62-120, the statements in the order the code runs them: the first
\* exception leaves the function
parse_channels(device_info_data, cable_modem, downstream_channels, upstream_channels, wan, ds_power, us_power, ds_snr, correctable, uncorrectable, system) ==
    IF wan.exc # "" THEN Raises(wan.exc)
    ELSE IF ds_power.exc # "" THEN Raises(ds_power.exc)
    ELSE IF us_power.exc # "" THEN Raises(us_power.exc)
    ELSE IF ds_snr.exc # "" THEN Raises(ds_snr.exc)
    ELSE IF correctable.exc # "" THEN Raises(correctable.exc)
    ELSE IF uncorrectable.exc # "" THEN Raises(uncorrectable.exc)
    ELSE IF system.exc # "" THEN Raises(system.exc)
    ELSE Pair(mqtt_data(cable_modem, downstream_channels, upstream_channels, wan.v,
                        ds_power.v, us_power.v, ds_snr.v, correctable.v, uncorrectable.v,
                        system.v),
              device_metadata(device_info_data))

\* lines 54-60: the channel lists and the test for no DOCSIS information
parse_cable_modem(device, device_info_data, cable_modem, downstream_channels, upstream_channels) ==
    IF ~Truthy(downstream_channels) /\ ~Truthy(upstream_channels) THEN NonePair
    ELSE parse_channels(device_info_data, cable_modem, downstream_channels, upstream_channels,
                        wan_ipv4_address(device),
                        channel_values(downstream_channels, Txt("power_level"), "float"),
                        channel_values(upstream_channels, Txt("power_level"), "float"),
                        channel_values(downstream_channels, Txt("SNR"), "float"),
                        channel_values(downstream_channels, Txt("correctable_codewords"), "int"),
                        channel_values(downstream_channels, Txt("uncorrectable_codewords"),
                                       "int"),
                        system_metrics(device_info_data))

\* lines 52-53: the navigation of the device tree
parse_device(device) ==
    IF ~IsDict(device) THEN Raises("AttributeError")
    ELSE IF ~IsDict(Get(device, Txt("docsis"), EmptyObj)) THEN Raises("AttributeError")
    ELSE IF ~IsDict(Get(Get(device, Txt("docsis"), EmptyObj), Txt("cable_modem"), EmptyObj))
         THEN Raises("AttributeError")
    ELSE The({ parse_cable_modem(device, Get(device, Txt("device_info"), EmptyObj),
                                 cable_modem,
                                 Get(cable_modem, Txt("downstreams"), EmptyArr),
                                 Get(cable_modem, Txt("upstreams"), EmptyArr))
               : cable_modem \in {Get(Get(device, Txt("docsis"), EmptyObj), Txt("cable_modem"), EmptyObj)} })

parse_docsis_data(device_info) ==
    IF ~Truthy(device_info) THEN NonePair
    ELSE IF ~IsDict(device_info) THEN Raises("AttributeError")
    ELSE parse_device(Get(device_info, Txt("device"), EmptyObj))
----------------------------------------------------------------------------
(* The polling loop of main (src/src/sagemcom2mqtt/app.py, lines 276-358)   *)
(* with get_docsis_data and publish_ha_discovery_config.  The clock         *)
(* time.time() is a float.  A message is what mqtt_client.publish is        *)
(* called with; of the discovery payload the model keeps the state topic    *)
(* and the unique id.                                                       *)

\* a variable that is None, or holds the value v
Unset == [set |-> FALSE, v |-> 0]
Holds(v) == [set |-> TRUE, v |-> v]

\* what get_docsis_data returns when an exception was caught (line 231)
NoResult == [kind |-> "None"]

\* the modem refuses the login: client.login() raises
LOGIN_FAILED == [t |-> "login_failed", v |-> << >>]

\* get_docsis_data letting the exceptions of parse_docsis_data through
get_docsis_data_uncaught(response) ==
    IF response = LOGIN_FAILED THEN NoResult
    ELSE parse_docsis_data(IF Truthy(response) THEN response ELSE EmptyObj)

\* lines 201-231, response being what the modem answers to the request for
\* the device tree
get_docsis_data(response) ==
    IF response = LOGIN_FAILED THEN NoResult
    ELSE The({ IF r.kind = "raise" THEN NoResult ELSE r
               : r \in {parse_docsis_data(IF Truthy(response) THEN response ELSE EmptyObj)} })

\* the quote repr() puts around the str s: " when s holds ' and no ",
\* otherwise '
repr_quote(s) == IF "'" \in CharsOf(s) /\ "\"" \notin CharsOf(s) THEN "\"" ELSE "'"

\* what repr() writes for the character c of a str in the quote q: the
\* quote and the backslash after a backslash, the short escapes, \xhh,
\* \uhhhh or \Uhhhhhhhh for a character that is not printable, and every
\* other character as it is
repr_char(c, q) ==
    IF c = q \/ c = "\\" THEN <<"\\", c>>
    ELSE IF c = "\t" THEN Txt("\\t")
    ELSE IF c = "\n" THEN Txt("\\n")
    ELSE IF c = "\r" THEN Txt("\\r")
    ELSE The({ IF ~InRanges(n, UNPRINTABLE_RANGES) THEN <<c>>
               ELSE IF n < 256 THEN Txt("\\x") \o FormatHex(n, 2)
               ELSE IF n < 65536 THEN Txt("\\u") \o FormatHex(n, 4)
               ELSE Txt("\\U") \o FormatHex(n, 8)
               : n \in {ord(c)} })

\* repr(s) of a str
str_repr(s) ==
    The({ <<q>> \o Join([i \in 1..Len(s) |-> repr_char(s[i], q)], << >>) \o <<q>>
          : q \in {repr_quote(s)} })

\* str(value) of an int, a float, None, True or False
scalar_str(n) ==
    CASE n.t = "num" -> IF n.v = Txt("NaN") THEN Txt("nan")
                        ELSE IF Unsigned(n.v) = Txt("Infinity")
                             THEN (IF Negative(n.v) THEN Txt("-inf") ELSE Txt("inf"))
                        ELSE n.v
      [] n.t = "null" -> Txt("None")
      [] n.t = "bool" -> IF n.v = Txt("true") THEN Txt("True") ELSE Txt("False")

\* repr(value): a str in quotes, a list as [e1, e2], a dict as {k1: v1, k2: v2}
\* with the repr of every part
RECURSIVE py_repr(_)
py_repr(n) ==
    CASE n.t = "str" -> str_repr(n.v)
      [] n.t = "arr" -> <<"[">> \o Join([i \in 1..Len(n.elems) |-> py_repr(n.elems[i])], Txt(", "))
                        \o <<"]">>
      [] n.t = "obj" -> <<"{">> \o Join([i \in 1..Len(n.items) |->
                                            str_repr(n.items[i].k) \o Txt(": ")
                                            \o py_repr(n.items[i].n)], Txt(", "))
                        \o <<"}">>
      [] OTHER -> scalar_str(n)

\* str(value), for the values a device tree gives to a metric or to the
\* serial number: a str is itself, every other value its repr
PyStr(n) == IF n.t = "str" THEN n.v ELSE py_repr(n)

\* d without the key (del d[key]) and with the key set (d[key] = node)
Del(d, key) == Obj(SelectSeq(d.items, LAMBDA it : it.k # key))
SetKey(d, key, node) ==
    IF HasKey(d, key)
    THEN Obj([i \in 1..Len(d.items) |-> IF d.items[i].k = key THEN Item(key, node) ELSE d.items[i]])
    ELSE Obj(Append(d.items, Item(key, node)))

\* the int under data['downstream'][key], 0 without it (lines 292-293)
downstream_sum(data, key) ==
    NumValue(Get(Get(data, Txt("downstream"), EmptyObj), key, NumNode(IntOf(0))).v)

\* the counter delta of lines 302-308
clamped(delta) == IF int_lt(delta, IntOf(0)) THEN IntOf(0) ELSE delta

\* (delta / time_delta) * 60 of lines 311-312, rounded as lines 326-327
\* round it; the division raises when the int is too large for a float
rate_of(delta, time_delta) ==
    The({ IF d.exc # "" THEN d
          ELSE Value(round(float_mul(float_truediv(d.v, time_delta), Float(FALSE, Big(15), 2)),
                           2))
          : d \in {int_to_float(delta)} })

\* lines 302-312 for one counter without the test for a counter reset
per_minute_unclamped(current_sum, last_sum, time_delta) ==
    IF float_gt(time_delta, Zero(FALSE))
    THEN rate_of(int_sub(current_sum, last_sum), time_delta)
    ELSE Value(round(IntOf(0), 2))

\* lines 302-312 and 326-327 for one counter, once line 298 has found the
\* state set: the rate that is published, round((delta / time_delta) * 60, 2),
\* and round(0, 2) when the time delta is not positive
per_minute(current_sum, last_sum, time_delta) ==
    IF float_gt(time_delta, Zero(FALSE))
    THEN rate_of(clamped(int_sub(current_sum, last_sum)), time_delta)
    ELSE Value(round(IntOf(0), 2))

\* the two rates as the nodes that are published, or the exception of the
\* first that raises
both_rates(correctable, uncorrectable) ==
    IF correctable.exc # "" THEN correctable
    ELSE IF uncorrectable.exc # "" THEN uncorrectable
    ELSE Value(<< NumNode(correctable.v), NumNode(uncorrectable.v) >>)

\* lines 295-312 and 326-327: (correctable_per_minute, uncorrectable_per_minute)
rates(s, data, current_poll_time) ==
    IF s.last_poll_time.set /\ s.last_correctable_sum.set
    THEN The({ both_rates(per_minute(downstream_sum(data, Txt("correctable_sum")),
                                     s.last_correctable_sum.v, time_delta),
                          per_minute(downstream_sum(data, Txt("uncorrectable_sum")),
                                     s.last_uncorrectable_sum.v, time_delta))
               : time_delta \in {float_sub(current_poll_time, s.last_poll_time.v)} })
    ELSE Value(<< NumNode(round(IntOf(0), 2)), NumNode(round(IntOf(0), 2)) >>)

\* lines 323-327: mqtt_data['downstream'] with the sums replaced by the rates
with_rates(data, correctable_per_minute, uncorrectable_per_minute) ==
    IF ~HasKey(data, Txt("downstream")) THEN data
    ELSE SetKey(data, Txt("downstream"),
             SetKey(SetKey(Del(Del(Get(data, Txt("downstream"), EmptyObj),
                                   Txt("correctable_sum")),
                               Txt("uncorrectable_sum")),
                           Txt("correctable_per_minute"), correctable_per_minute),
                    Txt("uncorrectable_per_minute"), uncorrectable_per_minute))

Message(kind, topic, payload) == [kind |-> kind, topic |-> topic, payload |-> payload]

\* lines 342-352: one message for every leaf of data
RECURSIVE publish_metrics(_, _)
RECURSIVE publish_items(_, _)
publish_items(topic, items) ==
    IF items = << >> THEN << >>
    ELSE (IF Head(items).n.t = "obj"
          THEN publish_metrics(topic \o <<"/">> \o Head(items).k, Head(items).n)
          ELSE << Message("metric", topic \o <<"/">> \o Head(items).k, PyStr(Head(items).n)) >>)
         \o publish_items(topic, Tail(items))
publish_metrics(topic, data) == publish_items(topic, data.items)

MQTT_TOPIC == Txt("sagemcom/docsis")

\* the keys of sensors (lines 155-172)
SENSORS == << Txt("status"), Txt("ipv4_address"),
              Txt("downstream/power_avg_dbmv"), Txt("downstream/power_min_dbmv"),
              Txt("downstream/power_max_dbmv"), Txt("downstream/snr_avg_db"),
              Txt("downstream/channels"), Txt("downstream/correctable_per_minute"),
              Txt("downstream/uncorrectable_per_minute"),
              Txt("upstream/power_avg_dbmv"), Txt("upstream/power_min_dbmv"),
              Txt("upstream/power_max_dbmv"), Txt("upstream/channels"),
              Txt("system/cpu_usage"), Txt("system/load_average_1m"),
              Txt("system/free_memory_percentage") >>

\* lines 127-199: one retained message for every sensor
publish_ha_discovery_config(discovery_prefix, metadata, base_topic) ==
    The({ [i \in 1..Len(SENSORS) |->
              The({ Message("discovery",
                            discovery_prefix \o Txt("/sensor/") \o serial_number \o <<"/">>
                                \o object_id \o Txt("/config"),
                            [state_topic |-> base_topic \o <<"/">> \o serial_number \o <<"/">>
                                                 \o SENSORS[i],
                             unique_id |-> serial_number \o <<"_">> \o object_id])
                    : object_id \in {Join(Split(SENSORS[i], "/"), <<"_">>)} })]
          : serial_number \in {PyStr(Get(metadata, Txt("serial_number"), Null))} })

\* the state of the loop: the four variables of lines 277-280, the messages
\* of the iteration, and whether the loop goes on
LoopState(time, correctable, uncorrectable, discovery, messages, goes_on) ==
    [last_poll_time |-> time, last_correctable_sum |-> correctable,
     last_uncorrectable_sum |-> uncorrectable, discovery_published |-> discovery,
     published |-> messages, running |-> goes_on]

\* lines 277-280: the state before the loop
InitialLoop == LoopState(Unset, Unset, Unset, FALSE, << >>, TRUE)

\* lines 286-290: the poll gave data with a serial number
yields_data(result) ==
    /\ result.kind = "pair"
    /\ Truthy(result.mqtt_data)
    /\ Truthy(Get(result.device_metadata, Txt("serial_number"), Null))

\* lines 330-332 with discovery published on every poll that yields data
discovery_step_always(prefix, already_published, metadata) ==
    IF prefix # NONE /\ prefix # << >>
    THEN publish_ha_discovery_config(prefix, metadata, MQTT_TOPIC)
    ELSE << >>

\* lines 330-332: the discovery messages of the iteration
discovery_step(prefix, already_published, metadata) ==
    IF prefix # NONE /\ prefix # << >> /\ ~already_published
    THEN publish_ha_discovery_config(prefix, metadata, MQTT_TOPIC)
    ELSE << >>

\* lines 318-352: the rest of an iteration that yields data, once the rates
\* are computed
publish_step(s, prefix, result, current_poll_time, both) ==
    LoopState(
        Holds(current_poll_time),
        Holds(downstream_sum(result.mqtt_data, Txt("correctable_sum"))),
        Holds(downstream_sum(result.mqtt_data, Txt("uncorrectable_sum"))),
        s.discovery_published \/ (prefix # NONE /\ prefix # << >>),
        discovery_step(prefix, s.discovery_published, result.device_metadata)
        \o publish_metrics(
               MQTT_TOPIC \o <<"/">>
                   \o PyStr(Get(result.device_metadata, Txt("serial_number"), Null)),
               with_rates(result.mqtt_data, both[1], both[2])),
        TRUE)

\* lines 283-355: one iteration of the loop, from the state s, with the
\* result of get_docsis_data and the clock of line 284; an exception that
\* get_docsis_data lets through, or that the division of line 311 raises,
\* ends the loop
iteration(s, prefix, result, current_poll_time) ==
    IF result.kind = "raise" THEN [s EXCEPT !.published = << >>, !.running = FALSE]
    ELSE IF ~yields_data(result) THEN [s EXCEPT !.published = << >>]
    ELSE The({ IF both.exc # "" THEN [s EXCEPT !.published = << >>, !.running = FALSE]
               ELSE publish_step(s, prefix, result, current_poll_time, both.v)
               : both \in {rates(s, result.mqtt_data, current_poll_time)} })
----------------------------------------------------------------------------
(* Inputs: the calls, documents and random tapes the model explores.  The  *)
(* same state machine is run on several families of inputs, one            *)
(* specification each, so that every family is explored exhaustively.      *)

MAC1 == Txt("00:11:22:33:44:55")
MAC2 == Txt("aa-bb-cc-dd-ee-ff")
IP6A == Txt("2001:0db8:0000:0001:0000:0000:0000:0001")
IP6B == Txt("fe80:0:0:0:1:2:3:abcd")

\* the end-to-end scenario of the specification
DOC_SCENARIO ==
    Obj(<< Item(Txt("status"), Obj(<< Item(Txt("ssid"), Str(Txt("HomeNet-5G"))),
                                 Item(Txt("bssid"), Str(MAC1)) >>)),
           Item(Txt("mac_address"), Str(MAC1)),
           Item(Txt("version"), Str(Txt("1.0.3"))) >>)

\* arrays with scalar elements, nested containers and non-string scalars
DOC_HOSTS ==
    Obj(<< Item(Txt("hosts"), Arr(<< Str(MAC1), Num(<<"5">>),
                                Obj(<< Item(Txt("ip_address"), Str(Txt("192.168.1.50"))) >>),
                                Arr(<< Str(Txt("8.8.8.8")) >>) >>)),
           Item(Txt("enabled"), Bool(Txt("true"))),
           Item(Txt("note"), Null),
           Item(Txt("empty"), Str(<< >>)) >>)

\* two devices with different serial numbers
DOC_SERIALS ==
    Obj(<< Item(Txt("modem"), Obj(<< Item(Txt("serial_number"), Str(Txt("SN123"))) >>)),
           Item(Txt("router"), Obj(<< Item(Txt("serial_number"), Str(Txt("SN999"))),
                                 Item(Txt("mac_address"), Str(MAC1)) >>)) >>)

\* a document that is one scalar
DOC_SCALAR == Str(MAC1)

\* MAC-shaped values under every kind of key
MAC_CALLS == <<
    Item(Txt("ssid"), Str(MAC1)),
    Item(Txt("bssid"), Str(MAC1)),
    Item(Txt("mac_address"), Str(MAC1)),
    Item(Txt("sw_version"), Str(MAC1)),
    Item(Txt("wifi_password"), Str(MAC1)),
    Item(Txt("mac_address"), Str(MAC2)) >>

\* IPv4 values: 192.168.x.y addresses and public addresses
IPV4_CALLS == <<
    Item(Txt("ssid"), Str(Txt("192.168.1.50"))),
    Item(Txt("ip_address"), Str(Txt("192.168.1.50"))),
    Item(Txt("gateway"), Str(Txt("192.168.1.1"))),
    Item(Txt("broadcast"), Str(Txt("192.168.1.255"))),
    Item(Txt("dns"), Str(Txt("8.8.8.8"))),
    Item(Txt("broadcast"), Str(Txt("172.16.0.255"))) >>

\* IPv4 values that are loopback, unspecified or begin with 255.
EXEMPT_CALLS == <<
    Item(Txt("ssid"), Str(Txt("127.0.0.1"))),
    Item(Txt("dns"), Str(Txt("127.0.0.1"))),
    Item(Txt("ssid"), Str(Txt("0.0.0.0"))),
    Item(Txt("listen"), Str(Txt("0.0.0.0"))),
    Item(Txt("netmask"), Str(Txt("255.255.255.0"))),
    Item(Txt("route"), Str(Txt("8.8.8.8 via 127.0.0.1 mask 255.0.0.0"))) >>

\* IPv6 values
IPV6_CALLS == <<
    Item(Txt("ipv6_address"), Str(IP6A)),
    Item(Txt("ipv6_address"), Str(IP6B)),
    Item(Txt("ssid"), Str(IP6B)),
    Item(Txt("ipv6_prefix"), Str(IP6A)) >>

\* serial numbers and passwords
KEYED_CALLS == <<
    Item(Txt("serial_number"), Str(Txt("SN123"))),
    Item(Txt("serial_number"), Str(Txt("SN999"))),
    Item(Txt("serial_number"), Str(<< >>)),
    Item(Txt("serial_number"), Num(Txt("42"))),
    Item(Txt("ssid"), Str(Txt("hunter2"))),
    Item(Txt("wifi_password"), Str(Txt("hunter2"))),
    Item(Txt("Passphrase"), Str(Txt("hunter2"))) >>

\* keys to which several rules could apply
ORDER_CALLS == <<
    Item(Txt("Password_Version"), Str(MAC1)),
    Item(Txt("hardware_version"), Num(<<"3">>)),
    Item(Txt("wifi_password"), Str(MAC1)),
    Item(Txt("prefix_passphrase"), Str(IP6B)),
    Item(Txt("prefix_passphrase"), Str(Txt("hunter2"))),
    Item(Txt("ssid_reference"), Str(MAC1)),
    Item(Txt("SSID"), Str(MAC1)),
    Item(Txt("bssid"), Str(Txt("8.8.8.8 via ") \o MAC1)),
    Item(Txt("Serial_Number"), Str(MAC1)) >>

\* a digit and a letter beyond ASCII: EXTENDED ARABIC-INDIC DIGIT ONE, which
\* \d and \w take and ipaddress refuses, and GREEK SMALL LETTER ALPHA
WIDE_ONE == <<"U+06F1">>
ALPHA == <<"U+03B1">>

\* substrings that match a pattern and are no address
INVALID_CALLS == <<
    Item(Txt("ssid"), Str(Txt("999.1.1.1"))),
    Item(Txt("dns"), Str(Txt("999.1.1.1 then 8.8.8.8"))),
    Item(Txt("route"), Str(Txt("12:34:56 via ") \o IP6B)),
    Item(Txt("note"), Str(Txt("010.1.1.1 at ") \o MAC1)),
    Item(Txt("dns"), Str(WIDE_ONE \o Txt(".1.1.1 then 8.8.8.8"))),
    Item(Txt("route"), Str(Txt("8.8.8.8") \o WIDE_ONE \o Txt(" via ") \o ALPHA \o Txt("9.9.9.9 and 1.1.1.1"))) >>

\* the paths of the file system and what is there at the start: a modem
\* document, a file that is no JSON, a document that is one number, a file
\* that is no UTF-8 text, a large document, a directory and an older output
PATHS == {Txt("modem.json"), Txt("bad.json"), Txt("nofile.json"), Txt("logs"), Txt("nodir"), Txt("out.json"),
          Txt("new.json"), Txt("nodir/out.json"), Txt("modem.anonymized.json"), Txt("count.json"),
          Txt("latin1.json"), Txt("big.json"), Txt("bad.json/in.json"), Txt("bad.json/out.json")}

DOC_MODEM == Obj(<< Item(Txt("mac_address"), Str(MAC1)) >>)

\* n copies of s
RECURSIVE Repeat(_, _)
Repeat(s, n) ==
    IF n <= 0 THEN << >> ELSE IF n = 1 THEN s ELSE Repeat(s, n \div 2) \o Repeat(s, n - (n \div 2))

\* a document whose text does not fit the buffer of the file object
DOC_BIG == Obj(<< Item(Txt("version"), Str(Repeat(<<"x">>, CHUNK_SIZE))) >>)

OLD_OUTPUT == Json(Obj(<< Item(Txt("old"), Num(<<"1">>)) >>))

INIT_FS ==
    [p \in PATHS |->
        CASE p = Txt("modem.json") -> Json(DOC_MODEM)
          [] p = Txt("bad.json") -> Malformed
          [] p = Txt("count.json") -> Json(Num(Txt("12345")))
          [] p = Txt("latin1.json") -> Undecodable
          [] p = Txt("big.json") -> Json(DOC_BIG)
          [] p = Txt("logs") -> Dir
          [] p = Txt("out.json") -> OLD_OUTPUT
          [] OTHER -> Absent]

\* calls anonymize_file(input_file, output_file)
FILE_CALLS == { <<Txt("modem.json"), Txt("out.json")>>, <<Txt("modem.json"), Txt("new.json")>>,
                <<Txt("modem.json"), Txt("nodir/out.json")>>, <<Txt("modem.json"), Txt("logs")>>,
                <<Txt("nofile.json"), Txt("out.json")>>, <<Txt("bad.json"), Txt("out.json")>>,
                <<Txt("logs"), Txt("out.json")>>, <<Txt("count.json"), Txt("out.json")>>,
                <<Txt("latin1.json"), Txt("out.json")>>, <<Txt("bad.json/in.json"), Txt("out.json")>>,
                <<Txt("modem.json"), Txt("bad.json/out.json")>>, <<Txt("big.json"), Txt("out.json")>> }

\* command lines
ARGVS == { <<>>, <<Txt("modem.json")>>, <<Txt("modem.json"), Txt("out.json")>>,
           <<Txt("nofile.json"), Txt("out.json")>>, <<Txt("modem.json"), Txt("nodir/out.json")>>,
           <<Txt("-h")>>, <<Txt("-x"), Txt("modem.json"), Txt("out.json")>>, <<Txt("--"), Txt("modem.json")>> }

\* the device under the output: it takes every byte, none, or two, and
\* an error of a large text comes up inside json.dump or at the close
IOS == { [accepted |-> UNLIMITED, in_dump |-> FALSE] }
       \cup { [accepted |-> a, in_dump |-> d] : a \in {0, 2}, d \in BOOLEAN }

\* texts in which a MAC-shaped substring meets the other scanners, or a
\* letter beyond ASCII, next to which the patterns find no word boundary
CHAIN_CALLS == <<
    Item(Txt("note"), Str(MAC1 \o Txt(":66:77"))),
    Item(Txt("route"), Str(MAC1 \o Txt(" via 8.8.8.8 and ") \o IP6B)),
    Item(Txt("duid"), Str(MAC1 \o Txt(":66"))),
    Item(Txt("note"), Str(Txt("at ") \o MAC1)),
    Item(Txt("Café"), Str(<<"é">> \o MAC1 \o Txt(" à 8.8.8.8é"))) >>

\* Device trees for parse_docsis_data: a tree is assembled from one choice
\* for each of its parts, MISSING standing for a key the tree does not have
MISSING == [t |-> "missing", v |-> << >>]
Opt(key, node) == IF node = MISSING THEN << >> ELSE << Item(key, node) >>

DS1 == Obj(<< Item(Txt("power_level"), Str(Txt("3.5"))), Item(Txt("SNR"), Str(Txt("38.25"))),
              Item(Txt("correctable_codewords"), Str(Txt("120"))),
              Item(Txt("uncorrectable_codewords"), Str(<<"7">>)) >>)
DS2 == Obj(<< Item(Txt("power_level"), Num(Txt("-1"))), Item(Txt("SNR"), Num(Txt("40"))),
              Item(Txt("correctable_codewords"), Num(<<"5">>)),
              Item(Txt("uncorrectable_codewords"), Num(<<"0">>)) >>)
DS_TEXT == Obj(<< Item(Txt("power_level"), Str(Txt("n/a"))), Item(Txt("SNR"), Str(Txt("38.25"))) >>)
DS_LOW == Obj(<< Item(Txt("power_level"), Str(Txt("-0.04"))), Item(Txt("SNR"), Str(<< >>)),
                 Item(Txt("correctable_codewords"), Num(Txt("12.7"))) >>)
US1 == Obj(<< Item(Txt("power_level"), Str(Txt("42.0"))) >>)
US2 == Obj(<< Item(Txt("power_level"), Str(<< >>)), Item(Txt("frequency"), Num(Txt("30000000"))) >>)

DS_LISTS == << MISSING, EmptyArr, Null, Arr(<< DS1 >>), Arr(<< DS1, DS2 >>),
               Arr(<< DS_TEXT >>), Arr(<< DS_LOW, DS2 >>) >>
US_LISTS == << MISSING, EmptyArr, Arr(<< US1 >>), Arr(<< US1, US2 >>) >>
STATUSES == << MISSING, Str(Txt("OPERATIONAL")) >>

INFO_FULL ==
    Obj(<< Item(Txt("serial_number"), Str(Txt("JW123456789012"))),
           Item(Txt("manufacturer"), Str(Txt("Sagemcom"))),
           Item(Txt("model_number"), Str(Txt("FAST3896"))),
           Item(Txt("mac_address"), Str(MAC1)),
           Item(Txt("hardware_version"), Str(Txt("1.0"))),
           Item(Txt("software_version"), Str(Txt("7.2"))),
           Item(Txt("process_status"),
                Obj(<< Item(Txt("cpu_usage"), Num(Txt("12"))),
                       Item(Txt("load_average"), Obj(<< Item(Txt("load1"), Str(Txt("0.375"))) >>)) >>)),
           Item(Txt("memory_status"), Obj(<< Item(Txt("free_memory_percentage"), Str(Txt("45"))) >>)) >>)
INFO_PARTIAL ==
    Obj(<< Item(Txt("serial_number"), Str(<< >>)),
           Item(Txt("process_status"), Obj(<< Item(Txt("cpu_usage"), Num(<<"0">>)) >>)) >>)
INFOS == << MISSING, INFO_FULL, INFO_PARTIAL, Null >>

IP_TREE ==
    Obj(<< Item(Txt("interfaces"), Arr(<<
        Obj(<< Item(Txt("i_pv4_addresses"), Arr(<<
            Obj(<< Item(Txt("alias"), Str(Txt("IP_LAN_ADDRESS"))),
                   Item(Txt("ip_address"), Str(Txt("192.168.0.1"))) >>) >>)) >>),
        Obj(<< Item(Txt("alias"), Str(Txt("cable"))) >>),
        Obj(<< Item(Txt("i_pv4_addresses"), Arr(<<
            Obj(<< Item(Txt("alias"), Str(Txt("IP_DATA_ADDRESS"))),
                   Item(Txt("ip_address"), Str(Txt("203.0.113.9"))) >>) >>)) >>) >>)) >>)
IPS == << MISSING, IP_TREE >>

DeviceInfo(info, ip, status, downstreams, upstreams) ==
    Obj(<< Item(Txt("device"), Obj(
        Opt(Txt("device_info"), info)
        \o << Item(Txt("docsis"), Obj(<< Item(Txt("cable_modem"), Obj(
                 Opt(Txt("status"), status)
                 \o Opt(Txt("downstreams"), downstreams)
                 \o Opt(Txt("upstreams"), upstreams))) >>)) >>
        \o Opt(Txt("IP"), ip))) >>)

\* a device tree whose serial number is a list
INFO_LISTED == Obj(<< Item(Txt("serial_number"), Arr(<< Str(Txt("S1")) >>)) >>)

\* what the modem answers in the polls: trees with a serial number whose
\* counters differ, a tree without serial number, a tree whose parsing
\* raises, no tree, a refused login, and a tree whose serial number and
\* status are lists
DS3 == Obj(<< Item(Txt("power_level"), Str(Txt("2.0"))),
              Item(Txt("correctable_codewords"), Str(<<"3">>)),
              Item(Txt("uncorrectable_codewords"), Str(Txt("32"))) >>)
PollTree(info, downstreams) ==
    DeviceInfo(info, IP_TREE, Str(Txt("OPERATIONAL")), downstreams, Arr(<< US1 >>))
RESPONSES == << PollTree(INFO_FULL, Arr(<< DS1 >>)),
                PollTree(INFO_FULL, Arr(<< DS1, DS2 >>)),
                PollTree(INFO_FULL, Arr(<< DS3 >>)),
                PollTree(INFO_PARTIAL, Arr(<< DS1 >>)),
                PollTree(INFO_FULL, Arr(<< DS_TEXT >>)),
                Null,
                LOGIN_FAILED,
                DeviceInfo(INFO_LISTED, IP_TREE,
                           Arr(<< Str(Txt("OPERATIONAL")), Num(<<"1">>) >>),
                           Arr(<< DS1 >>), Arr(<< US1 >>)) >>

\* the float that is nearest to the decimal number of the text
Reading(text) == float_from_string(text).v

\* the readings of time.time(), in any order: the wall clock can be set
\* back; the first two are 96 seconds apart
TIMES == << Reading(Txt("1761746400.5")), Reading(Txt("1761746496.5")),
            Reading(Txt("1761746503.733")) >>

\* HOMEASSISTANT_DISCOVERY_PREFIX: not set, or set
PREFIXES == {NONE, Txt("homeassistant")}

\* trees that are empty, or not trees at all
ODD_DEVICE_INFOS ==
    { Null, EmptyObj, Obj(<< Item(Txt("device"), Null) >>), Arr(<< Str(Txt("Device")) >>),
      Obj(<< Item(Txt("device"), Obj(<< Item(Txt("docsis"), Obj(<< Item(Txt("cable_modem"),
          Obj(<< Item(Txt("downstreams"), Obj(<< Item(Txt("power_level"), Str(Txt("3.5"))) >>)) >>)) >>)) >>)) >>) }

\* every choice of device_info, downstreams and upstreams; the IP tree and
\* the status alternate with them
DEVICE_INFOS ==
    { DeviceInfo(INFOS[i], IPS[((i + 1) % 2) + 1], STATUSES[(u % 2) + 1],
                 DS_LISTS[d], US_LISTS[u]) :
        i \in 1..Len(INFOS), d \in 1..Len(DS_LISTS), u \in 1..Len(US_LISTS) }
    \cup ODD_DEVICE_INFOS

\* the raw draws of the random source, read cyclically by one operation
TAPES == << <<0>>, <<51, 200, 7, 65535, 300>>, <<254, 1, 4660>> >>

Rnd(t) == [tape |-> TAPES[t], pos |-> 0]

MaxCalls == 3

\* runs of the driver in one behaviour
MaxRuns == 2

----------------------------------------------------------------------------
(* The state machine: one process, calls of the module's functions         *)

\* the string occurrences (key, value, output) of a document and its image
RECURSIVE Occurrences(_, _)
Occurrences(din, dout) ==
    IF din.t = "obj" /\ dout.t = "obj" /\ Len(din.items) = Len(dout.items)
    THEN UNION { (IF din.items[i].n.t = "str" /\ dout.items[i].n.t = "str"
                  THEN {[k |-> din.items[i].k, v |-> din.items[i].n.v,
                         o |-> dout.items[i].n.v]}
                  ELSE {})
                 \cup Occurrences(din.items[i].n, dout.items[i].n)
                 : i \in 1..Len(din.items) }
    ELSE IF din.t = "arr" /\ dout.t = "arr" /\ Len(din.elems) = Len(dout.elems)
    THEN UNION { Occurrences(din.elems[i], dout.elems[i]) : i \in 1..Len(din.elems) }
    ELSE {}

NoCall == [op |-> "none", key |-> << >>, value |-> Null, out |-> Null, pre |-> EmptyMap]

\* no run of the driver yet
NoRun == [op |-> "none", input |-> << >>, output |-> << >>, messages |-> << >>, paths |-> << >>,
          exit |-> -1, before |-> INIT_FS]

\* no call of parse_docsis_data yet
NoParse == [called |-> FALSE, device_info |-> Null, result |-> NonePair]

\* import of anonymize.py (lines 9 and 18), the fake serial number drawn
\* from one of tapes
InitAnonymizer(tapes) ==
    /\ \E t \in tapes : FAKE_SERIAL_NUMBER = make_fake_serial_number(Rnd(t))
    /\ REPLACEMENTS_MAP = EmptyMap
    /\ last = NoCall
    /\ seen = {}
    /\ ncalls = 0
    /\ files = INIT_FS
    /\ driver = NoRun
    /\ parsed = NoParse

\* no iteration of the polling loop yet
NoPoll == [called |-> FALSE, response |-> Null, result |-> NoResult, time |-> Zero(FALSE),
           before |-> [InitialLoop EXCEPT !.published = << >>]]

\* app.py lines 245 and 277-280: the discovery prefix of the environment,
\* one of prefixes, and the state before the loop
InitLoop(prefixes) ==
    /\ ha_discovery_prefix \in prefixes
    /\ last_poll_time = InitialLoop.last_poll_time
    /\ last_correctable_sum = InitialLoop.last_correctable_sum
    /\ last_uncorrectable_sum = InitialLoop.last_uncorrectable_sum
    /\ discovery_published = InitialLoop.discovery_published
    /\ published = InitialLoop.published
    /\ running = InitialLoop.running
    /\ polled = NoPoll

Init == InitAnonymizer(1..Len(TAPES)) /\ InitLoop({NONE})

\* a call anonymize_value(key, value), for one of the pairs of calls
CallAnonymizeValue(calls) ==
    /\ ncalls < MaxCalls
    /\ \E c \in 1..Len(calls), t \in 1..Len(TAPES) :
          \E r \in { anonymize_value(calls[c].k, calls[c].n, REPLACEMENTS_MAP, Rnd(t),
                                     FAKE_SERIAL_NUMBER) } :
              /\ REPLACEMENTS_MAP' = r.map
              /\ last' = [op |-> "value", key |-> calls[c].k, value |-> calls[c].n,
                          out |-> r.out, pre |-> REPLACEMENTS_MAP]
              /\ seen' = seen \cup (IF calls[c].n.t = "str" /\ r.out.t = "str"
                                    THEN {[k |-> calls[c].k, v |-> calls[c].n.v,
                                           o |-> r.out.v]}
                                    ELSE {})
    /\ ncalls' = ncalls + 1
    /\ UNCHANGED <<FAKE_SERIAL_NUMBER, files, driver, parsed, loop_vars>>

\* a call anonymize_data(data), for one of docs
CallAnonymizeData(docs) ==
    /\ ncalls < MaxCalls
    /\ \E d \in 1..Len(docs), t \in 1..Len(TAPES) :
          \E r \in { anonymize_data(docs[d], REPLACEMENTS_MAP, Rnd(t),
                                    FAKE_SERIAL_NUMBER) } :
              /\ REPLACEMENTS_MAP' = r.map
              /\ last' = [op |-> "data", key |-> << >>, value |-> docs[d], out |-> r.out,
                          pre |-> REPLACEMENTS_MAP]
              /\ seen' = seen \cup Occurrences(docs[d], r.out)
    /\ ncalls' = ncalls + 1
    /\ UNCHANGED <<FAKE_SERIAL_NUMBER, files, driver, parsed, loop_vars>>

\* a call anonymize_file(input_file, output_file); the device may fail
\* during the write
CallAnonymizeFile ==
    /\ ncalls < MaxRuns
    /\ \E c \in FILE_CALLS, io \in IOS, t \in 1..Len(TAPES) :
          \E r \in { anonymize_file(c[1], c[2], files, REPLACEMENTS_MAP, Rnd(t),
                                    FAKE_SERIAL_NUMBER, io) } :
              /\ files' = r.fs
              /\ REPLACEMENTS_MAP' = r.map
              /\ driver' = [op |-> "anonymize_file", input |-> c[1], output |-> c[2],
                         messages |-> r.messages, paths |-> r.paths, exit |-> -1,
                         before |-> files]
    /\ ncalls' = ncalls + 1
    /\ UNCHANGED <<FAKE_SERIAL_NUMBER, last, seen, parsed, loop_vars>>

\* a run of the command line with the arguments argv, to the end of the
\* process
CallMain ==
    /\ ncalls < MaxRuns
    /\ \E argv \in ARGVS, io \in IOS, t \in 1..Len(TAPES) :
          \E r \in { main(argv, files, REPLACEMENTS_MAP, Rnd(t), FAKE_SERIAL_NUMBER, io) } :
              /\ files' = r.run.fs
              /\ REPLACEMENTS_MAP' = r.run.map
              /\ driver' = [op |-> "main",
                         input |-> r.args.input_file, output |-> r.args.output_file,
                         messages |-> r.run.messages, paths |-> r.run.paths,
                         exit |-> r.exit, before |-> files]
    /\ ncalls' = ncalls + 1
    /\ UNCHANGED <<FAKE_SERIAL_NUMBER, last, seen, parsed, loop_vars>>

\* the driver and the command line
NextFile == CallAnonymizeFile \/ CallMain
SpecFile == Init /\ [][NextFile]_vars

\* MAC-shaped values and the end-to-end scenario
MacValue == CallAnonymizeValue(MAC_CALLS)
MacData == CallAnonymizeData(<<DOC_SCENARIO>>)
NextMac == MacValue \/ MacData
SpecMac == Init /\ [][NextMac]_vars

\* IPv4 values
Ipv4Value == CallAnonymizeValue(IPV4_CALLS)
NextIpv4 == Ipv4Value
SpecIpv4 == Init /\ [][NextIpv4]_vars

\* exempt IPv4 values
ExemptValue == CallAnonymizeValue(EXEMPT_CALLS)
NextExempt == ExemptValue
SpecExempt == Init /\ [][NextExempt]_vars

\* IPv6 values
Ipv6Value == CallAnonymizeValue(IPV6_CALLS)
NextIpv6 == Ipv6Value
SpecIpv6 == Init /\ [][NextIpv6]_vars

\* serial numbers, passwords and whole documents
KeyedValue == CallAnonymizeValue(KEYED_CALLS)
KeyedData == CallAnonymizeData(<<DOC_SERIALS>>)
NextKeyed == KeyedValue \/ KeyedData
SpecKeyed == Init /\ [][NextKeyed]_vars

\* the precedence of the rules
OrderValue == CallAnonymizeValue(ORDER_CALLS)
NextOrder == OrderValue
SpecOrder == Init /\ [][NextOrder]_vars

\* pattern matches that fail validation
InvalidValue == CallAnonymizeValue(INVALID_CALLS)
NextInvalid == InvalidValue
SpecInvalid == Init /\ [][NextInvalid]_vars

\* the document walker
WalkData == CallAnonymizeData(<<DOC_SCENARIO, DOC_HOSTS, DOC_SERIALS, DOC_SCALAR>>)
NextWalk == WalkData
SpecWalk == Init /\ [][NextWalk]_vars

ChainValue == CallAnonymizeValue(CHAIN_CALLS)
NextChain == ChainValue
SpecChain == Init /\ [][NextChain]_vars

\* a call parse_docsis_data(device_info)
\* parse_docsis_data is a function of its argument alone: what it gives for
\* every input of the model is computed once
PARSED == [device_info \in DEVICE_INFOS |-> parse_docsis_data(device_info)]

CallParseDocsisData ==
    /\ \E device_info \in DEVICE_INFOS :
           parsed' = [called |-> TRUE, device_info |-> device_info,
                      result |-> PARSED[device_info]]
    /\ UNCHANGED <<REPLACEMENTS_MAP, FAKE_SERIAL_NUMBER, last, seen, ncalls, files, driver, loop_vars>>

NextDocsis == CallParseDocsisData
SpecDocsis == Init /\ [][NextDocsis]_vars

\* the loop variables as one record, and back
Loop ==
    LoopState(last_poll_time, last_correctable_sum, last_uncorrectable_sum,
              discovery_published, published, running)

\* get_docsis_data is a function of what the modem answers alone: what it
\* returns for every answer of the model is computed once
RESULTS == [r \in 1..Len(RESPONSES) |-> get_docsis_data(RESPONSES[r])]

\* one iteration of the polling loop (app.py lines 282-355): the modem
\* gives one of its answers and the clock one of its readings
Poll ==
    /\ running
    /\ \E r \in 1..Len(RESPONSES), t \in 1..Len(TIMES) :
          \E result \in { RESULTS[r] } :
              \E s \in { iteration(Loop, ha_discovery_prefix, result, TIMES[t]) } :
                  /\ last_poll_time' = s.last_poll_time
                  /\ last_correctable_sum' = s.last_correctable_sum
                  /\ last_uncorrectable_sum' = s.last_uncorrectable_sum
                  /\ discovery_published' = s.discovery_published
                  /\ published' = s.published
                  /\ running' = s.running
                  /\ polled' = [called |-> TRUE, response |-> RESPONSES[r],
                                result |-> result, time |-> TIMES[t],
                                before |-> [Loop EXCEPT !.published = << >>]]
    /\ UNCHANGED <<REPLACEMENTS_MAP, FAKE_SERIAL_NUMBER, last, seen, ncalls, files, driver,
                   parsed, ha_discovery_prefix>>

\* app.py does not import anonymize.py: one fake serial number is enough
InitPoll == InitAnonymizer({1}) /\ InitLoop(PREFIXES)
NextPoll == Poll
SpecPoll == InitPoll /\ [][NextPoll]_vars

----------------------------------------------------------------------------
(* Properties                                                              *)

IsPasswordKey(k) ==
    The({ Contains(kl, Txt("password")) \/ Contains(kl, Txt("passphrase"))
          : kl \in {Lower(k)} })

\* the text is one MAC_ADDRESS_PATTERN match and nothing else
WholeMac(v) == Len(v) > 0 /\ MacMatchLen(v, 1) = Len(v)

\* the text is one IPV4_PATTERN match and nothing else, and a valid address
WholeIpv4(v) == Len(v) > 0 /\ Ipv4MatchLen(v, 1) = Len(v) /\ IsIPv4Address(v)

\* the text is one IPV6_PATTERN match and nothing else, and a valid address
WholeIpv6(v) == Len(v) > 0 /\ Ipv6MatchLen(v, 1) = Len(v) /\ IPv6Address(v) # <<>>

Exempt(ip) == is_loopback(ip) \/ is_unspecified(ip) \/ StartsWith(ip, Txt("255."))

\* the last operation was anonymize_value on a string that went through the
\* three scanners
LastScanned ==
    /\ last.op = "value"
    /\ RuleOf(last.key, last.value) = "content"

\* the last operation was anonymize_value on a string that went through the
\* MAC scanner
LastMacScanned ==
    /\ last.op = "value"
    /\ RuleOf(last.key, last.value) \in {"content", "bssid"}

\* C1 (as stated): any two occurrences of the identical non-empty string
\* under keys that are not password/passphrase keys have the identical
\* replacement.
C1_ConsistentAnyKey ==
    \A a \in seen, b \in seen :
        (a.v = b.v /\ a.v # << >> /\ ~IsPasswordKey(a.k) /\ ~IsPasswordKey(b.k))
            => a.o = b.o

\* C1 (amended): any two occurrences of the identical non-empty string under
\* keys to which the same rule of anonymize_value applies, the password rule
\* excepted, have the identical replacement; and a string that is one MAC
\* address has the identical replacement under `bssid` and under a key of
\* the general rule.
C1_ConsistentPerRule ==
    \A a \in seen, b \in seen :
        (a.v = b.v /\ a.v # << >>)
            => The({ \/ "password" \in {r[1], r[2]}
                     \/ ~ \/ r[1] = r[2]
                          \/ WholeMac(a.v) /\ {r[1], r[2]} = {"bssid", "content"}
                     \/ a.o = b.o
                     : r \in {<<RuleOf(a.k, Str(a.v)), RuleOf(b.k, Str(b.v))>>} })

\* `bssid` and `mac_address` hold the same MAC address and both got the same
\* new MAC address with the prefix kept
C1_Witness ==
    \E a \in seen, b \in seen :
        /\ a.k = Txt("bssid") /\ b.k = Txt("mac_address")
        /\ a.v = MAC1 /\ b.v = MAC1
        /\ a.o = b.o /\ a.o # MAC1
        /\ StartsWith(a.o, Txt("00:11:22:"))

\* the string scalars that are elements of arrays, or the root, with their
\* images
RECURSIVE ArrayLeaves(_, _, _)
ArrayLeaves(din, dout, direct) ==
    IF din.t = "obj" /\ dout.t = "obj" /\ Len(din.items) = Len(dout.items)
    THEN UNION { ArrayLeaves(din.items[i].n, dout.items[i].n, FALSE)
                 : i \in 1..Len(din.items) }
    ELSE IF din.t = "arr" /\ dout.t = "arr" /\ Len(din.elems) = Len(dout.elems)
    THEN UNION { ArrayLeaves(din.elems[i], dout.elems[i], TRUE)
                 : i \in 1..Len(din.elems) }
    ELSE IF din.t = "str" /\ direct
    THEN {[v |-> din.v, o |-> IF dout.t = "str" THEN dout.v ELSE << >>]}
    ELSE {}

\* C2: anonymize_data passes every non-empty string scalar through
\* anonymize_value, also an element of an array and the root: a MAC address
\* or an IPv4 address there is replaced by its entry of the store, as it is
\* under an object key.
C2_EveryScalarAnonymized ==
    last.op = "data" =>
        \A l \in ArrayLeaves(last.value, last.out, TRUE) :
            (WholeMac(l.v) \/ (WholeIpv4(l.v) /\ ~Exempt(l.v)))
                => /\ l.v \in DOMAIN REPLACEMENTS_MAP
                   /\ l.o = REPLACEMENTS_MAP[l.v]

\* the shape of a document: keys in order, array lengths, kinds of nodes
RECURSIVE Shape(_)
Shape(node) ==
    IF node.t = "obj"
    THEN [t |-> "obj",
          items |-> [i \in 1..Len(node.items) |->
                        [k |-> node.items[i].k, n |-> Shape(node.items[i].n)]]]
    ELSE IF node.t = "arr"
    THEN [t |-> "arr", elems |-> [i \in 1..Len(node.elems) |-> Shape(node.elems[i])]]
    ELSE [t |-> "scalar"]

\* C3: anonymize_data returns a document of the same shape as its input:
\* same keys in the same order, same array lengths, same nesting, same kind
\* of node everywhere.
C3_ShapePreserved ==
    last.op = "data" => Shape(last.out) = Shape(last.value)

\* a document with arrays, nested containers and null was rewritten
C3_Witness ==
    /\ last.op = "data"
    /\ last.value = DOC_HOSTS
    /\ last.out # last.value
    /\ Shape(last.out) = Shape(last.value)

\* o has six groups of two hex digits joined by the delimiter of v, the
\* first three those of v, and is uppercase
IsMacReplacementOf(o, v) ==
    /\ Len(o) = 17
    /\ o = Upper(o)
    /\ The({ /\ Len(parts) = 6
             /\ \A i \in 1..6 : Len(parts[i]) = 2 /\ (\A c \in CharsOf(parts[i]) : IsHex(c))
             /\ Take(parts, 3) = Take(Split(Upper(v), Ch(v, 3)), 3)
             : parts \in {Split(o, Ch(v, 3))} })

\* C4: in every state of the store, the text substituted for a MAC match has
\* six two-hex-digit groups joined by the original delimiter, the first
\* three groups of the original, and is uppercase.
C4_MacShape ==
    (LastMacScanned /\ WholeMac(last.value.v))
        => IsMacReplacementOf(last.out.v, last.value.v)

\* C5: an IPv4 match that is loopback, unspecified or begins with 255. is
\* returned unchanged in every state of the store and adds no entry to it.
C5_ExemptUnchanged ==
    LastScanned =>
        /\ (WholeIpv4(last.value.v) /\ Exempt(last.value.v))
               => /\ last.out = last.value
                  /\ REPLACEMENTS_MAP = last.pre
        /\ \A j \in 1..Len(last.value.v) :
               The({ (m # << >> /\ IsIPv4Address(m) /\ Exempt(m))
                         => /\ Contains(last.out.v, m)
                            /\ m \in DOMAIN REPLACEMENTS_MAP => m \in DOMAIN last.pre
                     : m \in {SubSeq(last.value.v, j, j + Ipv4MatchLen(last.value.v, j) - 1)} })

\* a loopback address that is a key of the store is returned unchanged
C5_Witness ==
    /\ LastScanned
    /\ last.value.v = Txt("127.0.0.1")
    /\ Txt("127.0.0.1") \in DOMAIN last.pre
    /\ last.out = last.value
    /\ REPLACEMENTS_MAP = last.pre

\* C6: for an IPv4 match 192.168.x.y, in every state of the store, the
\* output keeps the prefix 192.168.x; it is the input when y is 0, 1 or 255;
\* otherwise its last octet is in 2..254.
C6_PrivateRange ==
    (LastScanned /\ WholeIpv4(last.value.v) /\ StartsWith(last.value.v, Txt("192.168.")))
        => /\ IsIPv4Address(last.out.v)
           /\ Take(ParseOctets(last.out.v), 3) = Take(ParseOctets(last.value.v), 3)
           /\ IF ParseOctets(last.value.v)[4] \in {0, 1, 255}
              THEN last.out = last.value
              ELSE ParseOctets(last.out.v)[4] \in 2..254

\* C7: a valid IPv4 match that is not exempt, not 192.168.x.y and has no
\* entry in the store is replaced by 10.a.b.d, a and b in 0..255, d the
\* original last octet when that is 0, 1 or 255 and in 2..254 otherwise.
C7_PublicToTen ==
    (/\ LastScanned
     /\ WholeIpv4(last.value.v)
     /\ ~Exempt(last.value.v)
     /\ ~StartsWith(last.value.v, Txt("192.168."))
     /\ last.value.v \notin DOMAIN last.pre)
        => /\ IsIPv4Address(last.out.v)
           /\ The({ /\ p[1][1] = 10
                    /\ p[1][2] \in 0..255
                    /\ p[1][3] \in 0..255
                    /\ IF p[2] \in {0, 1, 255} THEN p[1][4] = p[2] ELSE p[1][4] \in 2..254
                    : p \in {<<ParseOctets(last.out.v), ParseOctets(last.value.v)[4]>>} })

\* a broadcast-like public address got a 10.a.b.255 replacement
C7_Witness ==
    /\ LastScanned
    /\ last.value.v = Txt("172.16.0.255")
    /\ Txt("172.16.0.255") \notin DOMAIN last.pre
    /\ IsIPv4Address(last.out.v)
    /\ ParseOctets(last.out.v)[1] = 10
    /\ ParseOctets(last.out.v)[4] = 255

\* C8: a valid IPv6 match with no entry in the store is replaced by a valid
\* IPv6 address that, expanded to eight groups, has the first group of the
\* expanded original and every later group 0000 or 0001 of the original at
\* its place, the other groups being any value 0000..ffff.
C8_Ipv6Groups ==
    (/\ LastScanned
     /\ WholeIpv6(last.value.v)
     /\ last.value.v \notin DOMAIN last.pre)
        => /\ IPv6Address(last.out.v) # <<>>
           /\ The({ /\ Len(p[2]) = 8
                    /\ \A i \in 1..8 :
                          /\ p[2][i] \in 0..65535
                          /\ (i = 1 \/ p[1][i] \in {Txt("0000"), Txt("0001")})
                                 => FormatHex(p[2][i], 4) = p[1][i]
                    : p \in {<<exploded_parts(IPv6Address(last.value.v)),
                               IPv6Address(last.out.v)>>} })

\* an address with groups 0000 and 0001 got a new address, written
\* compressed, with those groups kept and another group changed
C8_Witness ==
    /\ LastScanned
    /\ last.value.v = IP6A
    /\ IP6A \notin DOMAIN last.pre
    /\ IPv6Address(last.out.v) # <<>>
    /\ Contains(last.out.v, Txt("::"))
    /\ exploded_parts(IPv6Address(last.out.v))[4] = Txt("0001")
    /\ exploded_parts(IPv6Address(last.out.v))[2] # Txt("0db8")

\* 2 letters + 12 digits
IsSerialFormat(s) ==
    /\ Len(s) = 2 + SerialDigits
    /\ (\A c \in CharsOf(SubSeq(s, 1, 2)) : c \in CharsOf(ASCII_LETTERS))
    /\ (\A c \in CharsOf(SubSeq(s, 3, Len(s))) : IsDigit(c))

\* C9 (as stated): every field whose key is exactly serial_number gets the
\* fake serial number, whatever its value.
C9_SerialAnyValue ==
    (last.op = "value" /\ Lower(last.key) = Txt("serial_number"))
        => last.out = Str(FAKE_SERIAL_NUMBER)

\* C9 (amended): the fake serial number is 2 letters + 12 digits, and every
\* field whose key is exactly serial_number and whose value is a non-empty
\* string gets it, so any two such fields of a run get the identical output.
C9_SerialNonEmpty ==
    /\ IsSerialFormat(FAKE_SERIAL_NUMBER)
    /\ (/\ last.op = "value"
        /\ Lower(last.key) = Txt("serial_number")
        /\ last.value.t = "str"
        /\ last.value.v # << >>)
           => last.out = Str(FAKE_SERIAL_NUMBER)
    /\ \A a \in seen :
           (Lower(a.k) = Txt("serial_number") /\ a.v # << >>) => a.o = FAKE_SERIAL_NUMBER

\* two different serial numbers got the same fake serial number
C9_Witness ==
    \E a \in seen, b \in seen :
        /\ a.k = Txt("serial_number") /\ b.k = Txt("serial_number")
        /\ a.v = Txt("SN123") /\ b.v = Txt("SN999")
        /\ a.o = FAKE_SERIAL_NUMBER /\ b.o = FAKE_SERIAL_NUMBER

\* C10: a non-empty string under a password/passphrase key (rules 1 to 3 not
\* applying) becomes a 12-character alphanumeric string; the store is not
\* consulted, even when the value is one of its keys, and is left unchanged.
C10_PasswordFresh ==
    (last.op = "value" /\ RuleOf(last.key, last.value) = "password")
        => /\ last.out.t = "str"
           /\ Len(last.out.v) = PasswordLength
           /\ (\A c \in CharsOf(last.out.v) : c \in CharsOf(ASCII_LETTERS \o DIGITS))
           /\ REPLACEMENTS_MAP = last.pre
           /\ last.value.v \in DOMAIN last.pre => last.out.v # last.pre[last.value.v]

\* a password that is a key of the store got a fresh password
C10_Witness ==
    /\ last.op = "value"
    /\ last.key = Txt("wifi_password")
    /\ last.value.v = Txt("hunter2")
    /\ Txt("hunter2") \in DOMAIN last.pre
    /\ Len(last.out.v) = PasswordLength
    /\ last.out.v # last.pre[Txt("hunter2")]
    /\ REPLACEMENTS_MAP = last.pre

\* a 12-character alphanumeric string
IsPassword(s) ==
    /\ Len(s) = PasswordLength
    /\ (\A c \in CharsOf(s) : c \in CharsOf(ASCII_LETTERS \o DIGITS))

\* the entries the last operation added to the store
AddedKeys == (DOMAIN REPLACEMENTS_MAP) \ (DOMAIN last.pre)

\* C11: for a non-empty string, the rules apply in the order version,
\* ssid_reference, prefix with colon, serial_number, password/passphrase,
\* ssid, bssid, content scan, and the first that matches alone decides the
\* result.
C11_Precedence ==
    (last.op = "value" /\ last.value.t = "str" /\ last.value.v # << >>)
        => The({ IF \/ Contains(kl, Txt("version"))
                    \/ Contains(kl, Txt("ssid_reference"))
                    \/ Contains(kl, Txt("prefix")) /\ Contains(last.value.v, <<":">>)
                 THEN last.out = last.value /\ REPLACEMENTS_MAP = last.pre
                 ELSE IF kl = Txt("serial_number")
                 THEN last.out = Str(FAKE_SERIAL_NUMBER) /\ REPLACEMENTS_MAP = last.pre
                 ELSE IF Contains(kl, Txt("password")) \/ Contains(kl, Txt("passphrase"))
                 THEN IsPassword(last.out.v) /\ REPLACEMENTS_MAP = last.pre
                 ELSE IF kl = Txt("ssid")
                 THEN /\ AddedKeys \subseteq {last.value.v}
                      /\ last.out.v = REPLACEMENTS_MAP[last.value.v]
                      /\ last.value.v \in AddedKeys
                             => \E i \in 1..Len(WITTY_SSIDS) : last.out.v = WITTY_SSIDS[i]
                 ELSE IF kl = Txt("bssid")
                 THEN /\ \A k \in AddedKeys : WholeMac(k)
                      /\ \A j \in 1..Len(last.value.v) :
                            The({ m # << >> => Contains(last.out.v, m)
                                  : m \in {SubSeq(last.value.v, j, j + Ipv4MatchLen(last.value.v, j) - 1)} })
                 ELSE \A k \in AddedKeys : Contains(last.value.v, k) \/ WholeIpv6(k)
                 : kl \in {Lower(last.key)} })

\* a key with `password` whose value is a MAC address got a password, and
\* the MAC address got no entry
C11_Witness ==
    /\ last.op = "value"
    /\ last.key = Txt("wifi_password")
    /\ last.value.v = MAC1
    /\ IsPassword(last.out.v)
    /\ MAC1 \notin DOMAIN REPLACEMENTS_MAP

\* C12: under a key that contains `version`, whatever the case of its
\* letters, anonymize_value returns the value unchanged in every state of
\* the store, also when the value holds a MAC or IP address or is a key of
\* the store, and leaves the store unchanged.
C12_VersionUnchanged ==
    (last.op = "value" /\ Contains(Lower(last.key), Txt("version")))
        => /\ last.out = last.value
           /\ REPLACEMENTS_MAP = last.pre

\* a MAC address that is a key of the store is returned unchanged under a
\* key with `Version`
C12_Witness ==
    /\ last.op = "value"
    /\ last.key = Txt("Password_Version")
    /\ last.value = Str(MAC1)
    /\ MAC1 \in DOMAIN last.pre
    /\ last.out = last.value
    /\ REPLACEMENTS_MAP = last.pre

\* the matches pattern.sub visits in text[i..]: leftmost, non-overlapping
RECURSIVE MatchesFrom(_, _, _)
MatchesFrom(pattern, text, i) ==
    The({ IF j = 0 THEN {}
          ELSE The({ {SubSeq(text, j, j + l - 1)} \cup MatchesFrom(pattern, text, j + l)
                     : l \in {MatchLen(pattern, text, j)} })
          : j \in {FirstMatch(pattern, text, i)} })

\* C13: anonymize_value returns a value for every key and scalar in every
\* state of the store; a substring that matches a pattern and fails
\* validation (an octet above 255, an IPv6-pattern match that is no IPv6
\* address, such as the six groups of a MAC replacement) is left unchanged
\* and adds nothing to the store, and the scan goes on: a valid address
\* after it is replaced.
C13_InvalidUnchanged ==
    LastScanned =>
        /\ last.out.t = "str"
        /\ \A m \in MatchesFrom("IPV4", last.value.v, 1) :
               IF ~IsIPv4Address(m)
               THEN Contains(last.out.v, m) /\ m \notin AddedKeys
               ELSE Exempt(m) \/ (/\ m \in DOMAIN REPLACEMENTS_MAP
                                  /\ Contains(last.out.v, REPLACEMENTS_MAP[m]))
        /\ \A m \in MatchesFrom("IPV6", last.value.v, 1) :
               IF m \in MatchesFrom("MAC", last.value.v, 1)
               THEN /\ m \in DOMAIN REPLACEMENTS_MAP
                    /\ Contains(last.out.v, REPLACEMENTS_MAP[m])
               ELSE IF IPv6Address(m) = <<>>
               THEN Contains(last.out.v, m) /\ m \notin AddedKeys
               ELSE /\ m \in DOMAIN REPLACEMENTS_MAP
                    /\ Contains(last.out.v, REPLACEMENTS_MAP[m])

\* an address with an octet above 255 that is a key of the store stayed,
\* and the valid address after it was replaced
C13_Witness ==
    /\ LastScanned
    /\ last.value.v = Txt("999.1.1.1 then 8.8.8.8")
    /\ Txt("999.1.1.1") \in DOMAIN last.pre
    /\ StartsWith(last.out.v, Txt("999.1.1.1 then 10."))
    /\ AddedKeys = {Txt("8.8.8.8")}

\* the kinds of failure of the driver, by the message the code prints:
\* line 183, line 185, line 187; no message of the code reports a failure
\* of the sink as such
InputNotFound == "not_found"
MalformedInput == "decode_error"
UnexpectedFailure == "unexpected"
OutputWriteFailed == "output_write_failed"

\* the last run of the driver read and parsed its input
InputRead ==
    /\ driver.op # "none"
    /\ ~Falsy(driver.input)
    /\ Reach(driver.input, driver.before) = "file"
    /\ Entry(driver.before, driver.input).t = "json"

\* the last run of the driver printed the message of the kind
Reported(kind) == \E i \in 1..Len(driver.messages) : driver.messages[i] = kind

\* the last run of the driver could not open or write its sink: with the
\* input read and parsed, nothing else keeps it from ending with the
\* message of line 180 alone
SinkFailed ==
    /\ InputRead
    /\ ~Falsy(driver.output)
    /\ driver.messages # <<"written">>

\* C14: the driver reports each failure with its own kind: InputNotFound
\* only when the input cannot be located, MalformedInput when it cannot be
\* parsed, OutputWriteFailed when the sink cannot be opened or written; a
\* failure of the sink is never reported as the input being not found.
C14_FailureKinds ==
    driver.op # "none" =>
        /\ Reported(InputNotFound) => Reach(driver.input, driver.before) = "absent"
        /\ (/\ ~Falsy(driver.input)
            /\ Reach(driver.input, driver.before) = "file"
            /\ Entry(driver.before, driver.input).t \in {"text", "partial"}
            /\ ~Falsy(driver.output))
               => driver.messages = <<MalformedInput>>
        /\ SinkFailed => Reported(OutputWriteFailed)

\* C15: a run of the driver that ends in a failure leaves the sink as it
\* was: not created, not truncated, not partially written.
C15_SinkUntouchedOnFailure ==
    (driver.op # "none" /\ driver.messages # <<"written">>)
        => files = driver.before

\* the path with `.anonymized` before its extension
DefaultOutput(path) ==
    The({ IF Len(parts) = 1 THEN path \o Txt(".anonymized")
          ELSE Join(Take(parts, Len(parts) - 1) \o <<Txt("anonymized"), parts[Len(parts)]>>, <<".">>)
          : parts \in {Split(path, ".")} })

\* C16: the command line with an input path and no output path writes the
\* anonymized document to the input path with `.anonymized` before the
\* extension.
C16_DefaultOutputPath ==
    (/\ driver.op = "main"
     /\ driver.input = Txt("modem.json")
     /\ driver.output = NONE)
        => /\ driver.messages = <<"written">>
           /\ Entry(files, DefaultOutput(driver.input)).t = "json"
           /\ Shape(Entry(files, DefaultOutput(driver.input)).doc)
                  = Shape(driver.before[driver.input].doc)

\* C17: every failure of the driver ends the command line with a non-zero
\* exit status; status zero is reached only when the output document was
\* fully written.
C17_ExitStatus ==
    (driver.op = "main" /\ ~Falsy(driver.output) /\ driver.exit = 0)
        => /\ driver.messages = <<"written">>
           /\ Entry(files, driver.output).t = "json"

\* the node at the end of a path of keys in a tree, MISSING when the path
\* leaves the tree
RECURSIVE Navigate(_, _)
Navigate(n, path) ==
    IF path = << >> THEN n
    ELSE IF IsDict(n) /\ HasKey(n, Head(path)) THEN Navigate(Get(n, Head(path), Null), Tail(path))
    ELSE MISSING

\* a channel list that is missing, null or without elements
NoChannels(device_info, side) ==
    The({ (channels \in {MISSING, Null} \/ (Iterable(channels) /\ Elements(channels) = << >>))
          : channels \in {Navigate(device_info, << Txt("device"), Txt("docsis"), Txt("cable_modem"), side >>)} })

NoInput(device_info) == device_info \in {Null, EmptyObj, EmptyArr, Str(<< >>)}

\* the channel count of one side of mqtt_data
Channels(data, side) == StrToInt(Get(Get(data, side, EmptyObj), Txt("channels"), Num(<<"0">>)).v)

\* the result, when it is a pair, has the keys and the counts of the claim
PairComplete(result) ==
    /\ IsDict(result.mqtt_data) /\ IsDict(result.device_metadata)
    /\ \A key \in {Txt("status"), Txt("downstream"), Txt("upstream")} : HasKey(result.mqtt_data, key)
    /\ Channels(result.mqtt_data, Txt("downstream")) >= 0
    /\ Channels(result.mqtt_data, Txt("upstream")) >= 0
    /\ Channels(result.mqtt_data, Txt("downstream")) + Channels(result.mqtt_data, Txt("upstream")) > 0
    /\ \A i \in 1..Len(METADATA_KEYS) : HasKey(result.device_metadata, METADATA_KEYS[i])

\* C18: for every input parse_docsis_data returns (None, None) or a pair of
\* dictionaries, (None, None) exactly when the input is empty or both
\* channel lists are empty, and otherwise a pair with status, downstream and
\* upstream, channel counts >= 0 of sum > 0, and the six metadata keys.
C18_ParseTotal ==
    parsed.called =>
        /\ parsed.result.kind \in {"none", "pair"}
        /\ parsed.result.kind = "none"
               <=> \/ NoInput(parsed.device_info)
                   \/ /\ NoChannels(parsed.device_info, Txt("downstreams"))
                      /\ NoChannels(parsed.device_info, Txt("upstreams"))
        /\ parsed.result.kind = "pair" => PairComplete(parsed.result)

\* the same, for the calls that return
ParseReturnsComplete ==
    (parsed.called /\ parsed.result.kind # "raise") =>
        /\ parsed.result.kind = "none"
               <=> \/ NoInput(parsed.device_info)
                   \/ /\ NoChannels(parsed.device_info, Txt("downstreams"))
                      /\ NoChannels(parsed.device_info, Txt("upstreams"))
        /\ parsed.result.kind = "pair" => PairComplete(parsed.result)

\* C19: on a generic string the scanners run in the order MAC, IPv4, IPv6,
\* and text the MAC scanner has substituted is never altered by the later
\* scanners: every MAC-shaped substring of the input appears in the output
\* as its MAC replacement, OUI intact, also when further `:`-separated hex
\* groups follow it.
C19_MacSurvives ==
    LastScanned =>
        \A m \in MatchesFrom("MAC", last.value.v, 1) :
            /\ m \in DOMAIN REPLACEMENTS_MAP
            /\ IsMacReplacementOf(REPLACEMENTS_MAP[m], m)
            /\ Contains(last.out.v, REPLACEMENTS_MAP[m])

\* every entry of the store before a step is an entry of the store after it
EntriesKept ==
    \A k \in DOMAIN REPLACEMENTS_MAP :
        k \in DOMAIN REPLACEMENTS_MAP' /\ REPLACEMENTS_MAP'[k] = REPLACEMENTS_MAP[k]

\* the call looks its whole value up in the store: the ssid rule, and the
\* scanners on a value that is one match
LooksUp(key, value) ==
    \/ RuleOf(key, value) = "ssid"
    \/ RuleOf(key, value) \in {"bssid", "content"} /\ WholeMac(value.v)
    \/ /\ RuleOf(key, value) = "content"
       /\ \/ WholeIpv4(value.v) /\ ~Exempt(value.v)
          \/ WholeIpv6(value.v)

\* a call that looks up a value the store has returns the stored replacement
LookupReturnsStored ==
    (last'.op = "value" /\ LooksUp(last'.key, last'.value)
        /\ last'.value.v \in DOMAIN REPLACEMENTS_MAP)
        => last'.out.v = REPLACEMENTS_MAP[last'.value.v]

\* C20: the store is empty at the start and only grows: no operation
\* removes or overwrites an entry, so the replacement stored for a value is
\* the one chosen when it was first stored, and every later lookup of the
\* value returns it.
C20_StoreOnlyGrows ==
    /\ REPLACEMENTS_MAP = EmptyMap
    /\ [][EntriesKept /\ LookupReturnsStored]_vars

\* a third call has looked up a value stored by the first one, with another
\* value stored in between
C20_Witness ==
    /\ last.op = "value"
    /\ ncalls = 3
    /\ LooksUp(last.key, last.value)
    /\ last.value.v \in DOMAIN last.pre
    /\ last.out.v = last.pre[last.value.v]
    /\ Cardinality(DOMAIN REPLACEMENTS_MAP) >= 2
    /\ REPLACEMENTS_MAP = last.pre

\* the last iteration of the loop had data with a serial number
Yielded == polled.called /\ yields_data(polled.result)

\* the payloads published under the topic <base>/<serial>/downstream/<key>
\* in the last iteration
Payloads(key) ==
    { published[i].payload : i \in { j \in 1..Len(published) :
        /\ published[j].kind = "metric"
        /\ published[j].topic
               = MQTT_TOPIC \o <<"/">>
                 \o PyStr(Get(polled.result.device_metadata, Txt("serial_number"), Null))
                 \o Txt("/downstream/") \o key } }

\* the payload is a decimal number without sign and exponent: digits, and
\* after them a point and digits
IsUnsignedDecimal(p) ==
    The({ /\ Len(parts) \in {1, 2}
          /\ \A i \in 1..Len(parts) : parts[i] # << >> /\ (\A c \in CharsOf(parts[i]) : IsDigit(c))
          : parts \in {Split(p, ".")} })

\* the digits of such a payload as a natural number, and the number of
\* digits after the point: the payload is DecimalDigits / 10 ^ DecimalPlaces
DecimalDigits(p) == NatFromDigits(SelectSeq(p, IsDigit))
DecimalPlaces(p) == The({ IF Len(parts) = 2 THEN Len(parts[2]) ELSE 0
                          : parts \in {Split(p, ".")} })

\* the clock reading x, a float that is not negative, as the natural number
\* x * 2 ^ k, for a k that leaves no fraction
ScaledReading(x, k) == NatShl(x.man, x.exp + k)

\* the number of binary places of the readings x and y
BinaryPlaces(x, y) == MaxOf({0, -x.exp, -y.exp})

\* the reading now is later than the reading before
Later(before, now) ==
    The({ NatCmp(ScaledReading(now, k), ScaledReading(before, k)) > 0
          : k \in {BinaryPlaces(before, now)} })

\* |a - b| for natural numbers
Distance(a, b) == IF NatCmp(a, b) >= 0 THEN NatSub(a, b) ELSE NatSub(b, a)

\* the payload p is within 0.00501 of 60 * delta / (now - before), the
\* rate per minute in exact arithmetic: with p = n / 10 ^ d and
\* now - before = t / 2 ^ k,
\*     100000 * |n * t - 60 * delta * 2 ^ k * 10 ^ d| <= 501 * 10 ^ d * t
IsRateOf(p, delta, before, now) ==
    The({ The({ The({ NatCmp(NatMul(Big(10 ^ 5),
                                    Distance(NatMul(DecimalDigits(p), t),
                                             NatMul(NatShl(NatMulSmall(delta, 60), k), tens))),
                             NatMul(Big(501), NatMul(tens, t))) <= 0
                      : tens \in {NatPow(Big(10), DecimalPlaces(p))} })
                : t \in {NatSub(ScaledReading(now, k), ScaledReading(before, k))} })
          : k \in {BinaryPlaces(before, now)} })

\* the rate published under key is the one of the claim for the counter
\* read under sum_key, last_sum being the state of the counter before
RateAsClaimed(key, sum_key, last_sum) ==
    \E p \in Payloads(key) :
        /\ Payloads(key) = {p}
        /\ IsUnsignedDecimal(p)
        /\ IF ~polled.before.last_poll_time.set
           THEN DecimalDigits(p) = << >>
           ELSE IF ~Later(polled.before.last_poll_time.v, polled.time)
           THEN DecimalDigits(p) = << >>
           ELSE IF int_lt(downstream_sum(polled.result.mqtt_data, sum_key), last_sum.v)
           THEN DecimalDigits(p) = << >>
           ELSE IsRateOf(p, int_sub(downstream_sum(polled.result.mqtt_data, sum_key),
                                    last_sum.v).mag,
                         polled.before.last_poll_time.v, polled.time)

\* C21: the published correctable_per_minute and uncorrectable_per_minute
\* are never negative: 0 on the first poll with data, 0 when the counter
\* decreased or the time delta is not positive, otherwise the rate of the
\* delta against the last poll with data, 60 * delta / time delta to two
\* decimal places; last_poll_time, last_correctable_sum and
\* last_uncorrectable_sum are all unset or all set and change only on a
\* poll that yields data with a serial number.
C21_RatesNeverNegative ==
    /\ last_poll_time.set = last_correctable_sum.set
    /\ last_poll_time.set = last_uncorrectable_sum.set
    /\ ~Yielded =>
           /\ last_poll_time = polled.before.last_poll_time
           /\ last_correctable_sum = polled.before.last_correctable_sum
           /\ last_uncorrectable_sum = polled.before.last_uncorrectable_sum
           /\ published = << >>
    /\ Yielded =>
           /\ RateAsClaimed(Txt("correctable_per_minute"), Txt("correctable_sum"),
                            polled.before.last_correctable_sum)
           /\ RateAsClaimed(Txt("uncorrectable_per_minute"), Txt("uncorrectable_sum"),
                            polled.before.last_uncorrectable_sum)
           /\ last_poll_time = Holds(polled.time)
           /\ last_correctable_sum
                  = Holds(downstream_sum(polled.result.mqtt_data, Txt("correctable_sum")))
           /\ last_uncorrectable_sum
                  = Holds(downstream_sum(polled.result.mqtt_data, Txt("uncorrectable_sum")))

\* a poll after a modem reset, 96 seconds after the last poll with data,
\* the correctable counter lower than then and the uncorrectable counter
\* higher by 25: the first rate published is 0.0; the second, 15.625 in
\* exact arithmetic, is published as 15.63
C21_Witness ==
    /\ Yielded
    /\ polled.before.last_poll_time.set
    /\ Later(polled.before.last_poll_time.v, polled.time)
    /\ int_lt(last_correctable_sum.v, polled.before.last_correctable_sum.v)
    /\ int_sub(last_uncorrectable_sum.v, polled.before.last_uncorrectable_sum.v) = IntOf(25)
    /\ Payloads(Txt("correctable_per_minute")) = {Txt("0.0")}
    /\ Payloads(Txt("uncorrectable_per_minute")) = {Txt("15.63")}

\* HOMEASSISTANT_DISCOVERY_PREFIX is configured (line 330)
Configured == ha_discovery_prefix # NONE /\ ha_discovery_prefix # << >>

\* the positions of the messages of a kind among those of the last iteration
Positions(kind) == { i \in 1..Len(published) : published[i].kind = kind }

\* C22: with a discovery prefix configured, the discovery configuration is
\* published at most once per process, on the first poll that yields data
\* with a serial number and before the metrics of that poll; a poll that
\* fails or lacks a serial number publishes neither discovery nor metrics
\* and does not stop the loop.
C22_DiscoveryOnce ==
    /\ running
    /\ polled.before.discovery_published => discovery_published
    /\ Configured => (discovery_published <=> last_poll_time.set)
    /\ ~Yielded => published = << >> /\ discovery_published = polled.before.discovery_published
    /\ Positions("discovery") # {} =>
           /\ Configured /\ Yielded
           /\ ~polled.before.discovery_published /\ ~polled.before.last_poll_time.set
           /\ discovery_published
           /\ Cardinality(Positions("discovery")) = Len(SENSORS)
           /\ Positions("metric") # {}
           /\ \A i \in Positions("discovery"), j \in Positions("metric") : i < j
    /\ (Configured /\ Yielded /\ ~polled.before.last_poll_time.set) =>
           Positions("discovery") # {}

\* a later poll with data, the prefix configured and the discovery
\* configuration published before: metrics are published, the discovery
\* configuration is not
C22_Witness ==
    /\ Configured
    /\ Yielded
    /\ polled.before.discovery_published
    /\ Positions("metric") # {}
    /\ Positions("discovery") = {}
====
